---- MODULE Spec2Model ----
(***************************************************************************)
(* The polygon editor of src/src/index.js: the node sequence with its      *)
(* mirror pairing, the weighted displacement, edge insertion, deletion,    *)
(* and the checkpoint-based undo/redo history, driven by the editor's      *)
(* event handlers.                                                         *)
(*                                                                         *)
(* Numbers.  Coordinates are JavaScript doubles in the source.  The model  *)
(* keeps them as integers counting eighths of a world unit: every input    *)
(* below is chosen so that each product and quotient the code forms is a   *)
(* whole number of eighths, which a double represents exactly, so the      *)
(* model computes what the code computes.  perHopFalloff is kept in halves *)
(* (FalloffDen), zoom in tenths (ZoomDen).  Indices are 0-based as in the  *)
(* source; -1 is "not found".                                              *)
(***************************************************************************)
EXTENDS Integers, Sequences, FiniteSets, TLC

VARIABLES
    points,              \* node array: <<[id, x, y, mirrorId, primary], ...>>
    nodeIdCounter,       \* next id createNode hands out
    idToIndex,           \* Map id -> index, as left by the last rebuildIndex
    selectedIds,         \* Set of node ids
    pan, zoom,           \* view: pan = <<x, y>>, zoom in tenths
    mirrorEnabled, weightEnabled, perHopFalloff, maxHops,
    suppressHistory,
    past, future, checkpoint,          \* createHistoryManager's closure
    dragging, dragMode, moveHistoryActive, moveApplied,
    activeDragCanonical, activeDragIsMirror,
    issuedIds,           \* history variable: every id createNode returned, in order
    lastOp,              \* history variable: the handler that ran last
    steps,               \* number of events handled so far
    heap,                \* the objects of the reference-level model (empty elsewhere)
    box,                 \* the box-select gesture: boxStart, boxEnd, boxAdditive
    frames,              \* FrameManager.frames
    currentFrameIndex,   \* FrameManager.currentFrameIndex
    activeLayerId,       \* LayerManager.activeLayerId
    uid,                 \* history variable: the number of frames and layers created
    currentTool,         \* ToolManager.currentTool
    toolState,           \* ToolManager.toolState: currentPath, pendingShape
    undoStack,           \* HistoryManager.undoStack: serialised states, oldest first
    redoStack,           \* HistoryManager.redoStack
    capturedAt,          \* history variable: the step at which each entry of past and
                         \* the open checkpoint took its snapshot
    emitter,             \* an EventEmitter: its listeners for one event, the emit that
                         \* is delivering, and which callbacks were taken off
    selectedVertices     \* app.state.selectedVertices: "shapeId:index" keys in order

vars == <<points, nodeIdCounter, idToIndex, selectedIds, pan, zoom,
          mirrorEnabled, weightEnabled, perHopFalloff, maxHops, suppressHistory,
          past, future, checkpoint, dragging, dragMode, moveHistoryActive,
          moveApplied, activeDragCanonical, activeDragIsMirror,
          issuedIds, lastOp, steps, heap, box,
          frames, currentFrameIndex, activeLayerId, uid,
          currentTool, toolState, undoStack, redoStack, capturedAt,
          emitter, selectedVertices>>

----------------------------------------------------------------------------
\* Bounds of the model and constants of the program

MaxSteps == 3            \* events per explored session

NullId == 0              \* mirrorId == null (ids start at 1)
NotFound == -1           \* indexOfNodeId's "not found"
MinSides == 3            \* setN: Math.max(3, ...)
SymTolerance == 40       \* rebuildMirrorPairs: symmetryError > 5 (world units)
FalloffDen == 2          \* perHopFalloff = n / FalloffDen
ZoomDen == 10            \* zoom = n / ZoomDen
ZoomMin == 2             \* wheel: Math.max(0.2, ...)
ZoomMax == 50            \* wheel: Math.min(5, ...)
HopsMin == 1             \* hopsInput: Math.max(1, ...)
HopsMax == 32            \* hopsInput: Math.min(32, ...)
InitialHops == 3         \* let maxHops = 3
InitialFalloff == 1      \* let perHopFalloff = 0.5 (in halves)

\* checkpoint is <<>> (null) or <<entry>>; an entry is [label, state]
NoCheckpoint == <<>>

----------------------------------------------------------------------------
\* Small arithmetic

\* Math.abs(v) <= EPS with EPS = 1e-6, v an integer
WithinEps(v) == v = 0

Abs(n) == IF n < 0 THEN -n ELSE n
Min2(a, b) == IF a < b THEN a ELSE b
Max2(a, b) == IF a > b THEN a ELSE b
Sign(n) == IF n > 0 THEN 1 ELSE IF n < 0 THEN -1 ELSE 0

RECURSIVE Pow(_, _)
Pow(b, e) == IF e = 0 THEN 1 ELSE b * Pow(b, e - 1)

\* n / d for a quotient the inputs keep integral (rounds toward zero otherwise)
Quot(n, d) == IF n >= 0 THEN n \div d ELSE -((-n) \div d)

----------------------------------------------------------------------------
\* The editor state as one record E, so that the source's functions compose.
\* Fields: points, nodeIdCounter, idToIndex, selectedIds, pan, zoom,
\* mirrorEnabled, weightEnabled, perHopFalloff, maxHops, suppressHistory,
\* past, future, checkpoint, issuedIds.

Len0(E) == Len(E.points)
Indices(E) == 0 .. (Len(E.points) - 1)
At(E, i) == E.points[i + 1]
HasIdx(E, i) == i >= 0 /\ i < Len(E.points)

\* points.splice(i, 1, node): the node at i is replaced instead of shifted
SpliceInReplacing(pts, i, node) ==
    IF i >= Len(pts) THEN Append(pts, node) ELSE [pts EXCEPT ![i + 1] = node]

\* points.splice(i, 0, node)
SpliceIn(pts, i, node) ==
    [k \in 1 .. (Len(pts) + 1) |->
        IF k <= i THEN pts[k] ELSE IF k = i + 1 THEN node ELSE pts[k - 1]]

\* points with the indices in rm removed (splice(i, 1) from the highest down)
RECURSIVE SpliceOut(_, _)
SpliceOut(pts, rm) ==
    IF pts = <<>> THEN <<>>
    ELSE LET n == Len(pts)
             front == SpliceOut(SubSeq(pts, 1, n - 1), rm)
         IN  IF (n - 1) \in rm THEN front ELSE Append(front, pts[n])

\* createNode without the increment of nodeIdCounter
createNodeBuggy(E, x, y, mirrorId, primary) ==
    [e |-> [E EXCEPT !.issuedIds = Append(@, E.nodeIdCounter)],
     node |-> [id |-> E.nodeIdCounter, x |-> x, y |-> y,
               mirrorId |-> mirrorId, primary |-> primary]]

\* createNode: {id: nodeIdCounter++, x, y, mirrorId, primary}
createNode(E, x, y, mirrorId, primary) ==
    [e |-> [E EXCEPT !.nodeIdCounter = @ + 1,
                     !.issuedIds = Append(@, E.nodeIdCounter)],
     node |-> [id |-> E.nodeIdCounter, x |-> x, y |-> y,
               mirrorId |-> mirrorId, primary |-> primary]]

cloneNode(node) ==
    [id |-> node.id, x |-> node.x, y |-> node.y,
     mirrorId |-> node.mirrorId, primary |-> node.primary]

\* rebuildIndex: a later entry with the same id overwrites an earlier one
rebuildIndex(E) ==
    LET ids == {E.points[k].id : k \in 1 .. Len(E.points)}
    IN  [E EXCEPT !.idToIndex =
            [id \in ids |->
                (CHOOSE k \in 1 .. Len(E.points) :
                    /\ E.points[k].id = id
                    /\ \A j \in 1 .. Len(E.points) : E.points[j].id = id => j <= k) - 1]]

indexOfNodeId(E, id) ==
    IF id = NullId THEN NotFound
    ELSE IF id \in DOMAIN E.idToIndex THEN E.idToIndex[id] ELSE NotFound

\* linkMirrorPair without "b.primary = false"
linkMirrorPairBothPrimary(E, primaryIdx, mirrorIdx) ==
    IF primaryIdx < 0 \/ mirrorIdx < 0 THEN E
    ELSE IF ~HasIdx(E, primaryIdx) \/ ~HasIdx(E, mirrorIdx) THEN E
    ELSE LET pid == At(E, primaryIdx).id
             mid == At(E, mirrorIdx).id
             E1 == [E EXCEPT !.points[primaryIdx + 1].mirrorId = mid]
             E2 == [E1 EXCEPT !.points[mirrorIdx + 1].mirrorId = pid]
         IN  [E2 EXCEPT !.points[primaryIdx + 1].primary = TRUE]

linkMirrorPair(E, primaryIdx, mirrorIdx) ==
    IF primaryIdx < 0 \/ mirrorIdx < 0 THEN E
    ELSE IF ~HasIdx(E, primaryIdx) \/ ~HasIdx(E, mirrorIdx) THEN E
    ELSE LET pid == At(E, primaryIdx).id
             mid == At(E, mirrorIdx).id
             E1 == [E EXCEPT !.points[primaryIdx + 1].mirrorId = mid]
             E2 == [E1 EXCEPT !.points[mirrorIdx + 1].mirrorId = pid]
             E3 == [E2 EXCEPT !.points[mirrorIdx + 1].primary = FALSE]
         IN  [E3 EXCEPT !.points[primaryIdx + 1].primary = TRUE]

\* unlinkMirror(idx)
unlinkMirror(E, idx) ==
    IF ~HasIdx(E, idx) THEN E
    ELSE IF At(E, idx).mirrorId = NullId THEN E
    ELSE LET partnerIdx == indexOfNodeId(E, At(E, idx).mirrorId)
             E1 == [E EXCEPT !.points[idx + 1].mirrorId = NullId]
         IN  IF partnerIdx >= 0
             THEN [E1 EXCEPT !.points[partnerIdx + 1].mirrorId = NullId,
                             !.points[partnerIdx + 1].primary = TRUE]
             ELSE E1

getMirrorIndex(E, idx) ==
    IF idx < 0 THEN NotFound
    ELSE IF ~HasIdx(E, idx) THEN NotFound
    ELSE IF At(E, idx).mirrorId = NullId THEN NotFound
    ELSE indexOfNodeId(E, At(E, idx).mirrorId)

primaryIndexFor(E, idx) ==
    IF idx < 0 THEN NotFound
    ELSE IF ~HasIdx(E, idx) THEN NotFound
    ELSE IF At(E, idx).primary \/ At(E, idx).mirrorId = NullId THEN idx
    ELSE LET partnerIdx == indexOfNodeId(E, At(E, idx).mirrorId)
         IN  IF partnerIdx >= 0 THEN partnerIdx ELSE idx

clearSelection(E) == [E EXCEPT !.selectedIds = {}]

isIndexSelected(E, idx) == HasIdx(E, idx) /\ At(E, idx).id \in E.selectedIds

addIndexToSelection(E, idx) ==
    IF HasIdx(E, idx) THEN [E EXCEPT !.selectedIds = @ \cup {At(E, idx).id}] ELSE E

removeIndexFromSelection(E, idx) ==
    IF HasIdx(E, idx) THEN [E EXCEPT !.selectedIds = @ \ {At(E, idx).id}] ELSE E

\* getSelectedIndices: the indices of the selected ids the map knows
getSelectedIndices(E) ==
    {indexOfNodeId(E, id) : id \in E.selectedIds} \ {NotFound}

----------------------------------------------------------------------------
\* createHistoryManager

\* snapshot without the selection
snapshotBuggy(E) ==
    [points |-> [k \in 1 .. Len(E.points) |-> cloneNode(E.points[k])],
     selectedIds |-> {},
     pan |-> E.pan,
     zoom |-> E.zoom,
     mirrorEnabled |-> E.mirrorEnabled,
     nodeIdCounter |-> E.nodeIdCounter,
     weightEnabled |-> E.weightEnabled,
     perHopFalloff |-> E.perHopFalloff,
     maxHops |-> E.maxHops]

snapshot(E) ==
    [points |-> [k \in 1 .. Len(E.points) |-> cloneNode(E.points[k])],
     selectedIds |-> E.selectedIds,
     pan |-> <<E.pan[1], E.pan[2]>>,
     zoom |-> E.zoom,
     mirrorEnabled |-> E.mirrorEnabled,
     nodeIdCounter |-> E.nodeIdCounter,
     weightEnabled |-> E.weightEnabled,
     perHopFalloff |-> E.perHopFalloff,
     maxHops |-> E.maxHops]

\* restore(state) that leaves idToIndex as it was
restoreStaleIndex(E, state) ==
    [E EXCEPT !.points = [k \in 1 .. Len(state.points) |->
                             cloneNode(state.points[k])],
              !.selectedIds = state.selectedIds,
              !.pan = <<state.pan[1], state.pan[2]>>,
              !.zoom = state.zoom,
              !.mirrorEnabled = state.mirrorEnabled,
              !.nodeIdCounter = state.nodeIdCounter,
              !.weightEnabled = state.weightEnabled,
              !.perHopFalloff = state.perHopFalloff,
              !.maxHops = state.maxHops]

\* restore(state): suppressHistory is true while it runs and false when it returns
restore(E, state) ==
    LET E1 == [E EXCEPT !.suppressHistory = TRUE,
                        !.points = [k \in 1 .. Len(state.points) |->
                                        cloneNode(state.points[k])],
                        !.selectedIds = state.selectedIds,
                        !.pan = <<state.pan[1], state.pan[2]>>,
                        !.zoom = state.zoom,
                        !.mirrorEnabled = state.mirrorEnabled,
                        !.nodeIdCounter = state.nodeIdCounter,
                        !.weightEnabled = state.weightEnabled,
                        !.perHopFalloff = state.perHopFalloff,
                        !.maxHops = state.maxHops]
        E2 == rebuildIndex(E1)
    IN  [E2 EXCEPT !.suppressHistory = FALSE]

\* begin without "if (checkpoint) return"
historyBeginReentrant(E, label) ==
    IF E.suppressHistory THEN E
    ELSE [E EXCEPT !.checkpoint = <<[label |-> label, state |-> snapshot(E)]>>]

historyBegin(E, label) ==
    IF E.suppressHistory THEN E
    ELSE IF E.checkpoint # NoCheckpoint THEN E
    ELSE [E EXCEPT !.checkpoint = <<[label |-> label, state |-> snapshot(E)]>>]

historyCommit(E) ==
    IF E.checkpoint = NoCheckpoint THEN E
    ELSE [E EXCEPT !.past = Append(@, E.checkpoint[1]),
                   !.future = <<>>,
                   !.checkpoint = NoCheckpoint]

historyCancel(E) == [E EXCEPT !.checkpoint = NoCheckpoint]

\* record without "future.length = 0"
historyRecordKeepingFuture(E, label) ==
    IF E.suppressHistory THEN E
    ELSE [E EXCEPT !.past = Append(@, [label |-> label, state |-> snapshot(E)])]

historyRecord(E, label) ==
    IF E.suppressHistory THEN E
    ELSE [E EXCEPT !.past = Append(@, [label |-> label, state |-> snapshot(E)]),
                   !.future = <<>>]

historyUndo(E) ==
    LET E0 == IF E.checkpoint # NoCheckpoint THEN historyCancel(E) ELSE E
    IN  IF Len(E0.past) = 0 THEN E0
        ELSE LET current == snapshot(E0)
                 entry == E0.past[Len(E0.past)]
                 E1 == [E0 EXCEPT
                          !.past = SubSeq(@, 1, Len(@) - 1),
                          !.future = Append(@, [label |-> entry.label,
                                                state |-> current])]
             IN  restore(E1, entry.state)

\* redo pushing the popped entry itself onto past, not the pre-redo snapshot
historyRedoStale(E) ==
    IF Len(E.future) = 0 THEN E
    ELSE LET entry == E.future[Len(E.future)]
             E1 == [E EXCEPT
                      !.future = SubSeq(@, 1, Len(@) - 1),
                      !.past = Append(@, entry)]
         IN  restore(E1, entry.state)

historyRedo(E) ==
    IF Len(E.future) = 0 THEN E
    ELSE LET current == snapshot(E)
             entry == E.future[Len(E.future)]
             E1 == [E EXCEPT
                      !.future = SubSeq(@, 1, Len(@) - 1),
                      !.past = Append(@, [label |-> entry.label,
                                          state |-> current])]
         IN  restore(E1, entry.state)

historyClear(E) ==
    [E EXCEPT !.past = <<>>, !.future = <<>>, !.checkpoint = NoCheckpoint]

----------------------------------------------------------------------------
\* Geometry and the mirror constraint engine

\* makeRegularPolygon's vertices R*(cos t, sin t), t = 2*pi*i/N - pi/2, on the
\* grid for a canvas with R = min(w, h) * 0.35 = 8: vertex 0 at (0, -R) on the axis, vertex i the
\* mirror image of vertex N - i, x > 0 for 0 < i < N/2, vertex N/2 on the axis
\* (N even).
RegularXY(N) ==
    CASE N = 1 -> << <<0, -64>> >>
      [] N = 2 -> << <<0, -64>>, <<0, 64>> >>
      [] N = 3 -> << <<0, -64>>, <<56, 32>>, <<-56, 32>> >>
      [] N = 4 -> << <<0, -64>>, <<64, 0>>, <<0, 64>>, <<-64, 0>> >>
      [] N = 5 -> << <<0, -64>>, <<64, -16>>, <<40, 48>>, <<-40, 48>>, <<-64, -16>> >>
      [] N = 6 -> << <<0, -64>>, <<56, -32>>, <<56, 32>>, <<0, 64>>,
                     <<-56, 32>>, <<-56, -32>> >>
      [] N = 7 -> << <<0, -64>>, <<48, -40>>, <<64, 16>>, <<24, 56>>,
                     <<-24, 56>>, <<-64, 16>>, <<-48, -40>> >>

\* makeRegularPolygon(N): [e: the state after N createNode calls, arr: the nodes]
RECURSIVE makeRegularPolygonFrom(_, _, _, _)
makeRegularPolygonFrom(E, N, i, arr) ==
    IF i >= N THEN [e |-> E, arr |-> arr]
    ELSE LET xy == RegularXY(N)[i + 1]
             c == createNode(E, xy[1], xy[2], NullId, TRUE)
         IN  makeRegularPolygonFrom(c.e, N, i + 1, Append(arr, c.node))

makeRegularPolygon(E, N) == makeRegularPolygonFrom(E, N, 0, <<>>)

ringDistance(i, j, N) ==
    LET d == Abs(i - j) IN Min2(d, N - d)

clearMirrorPairs(E) ==
    [E EXCEPT !.points = [k \in 1 .. Len(E.points) |->
        [E.points[k] EXCEPT !.mirrorId = NullId, !.primary = TRUE]]]

\* rebuildMirrorPairs' inner loop for node i: the unused j of opposite sign with
\* symmetryError <= 5 and the lowest score (the first such j on a tie), or -1
bestPartner(E, i, used) ==
    LET node == At(E, i)
        symmetryError(j) == Abs(node.x + At(E, j).x)
        score(j) == symmetryError(j) + Abs(node.y - At(E, j).y)
        cand == {j \in Indices(E) :
                    /\ j # i
                    /\ At(E, j).id \notin used
                    /\ Sign(node.x) # Sign(At(E, j).x)
                    /\ ~(symmetryError(j) > SymTolerance)}
    IN  IF cand = {} THEN NotFound
        ELSE CHOOSE j \in cand :
                \A k \in cand : score(j) < score(k) \/ (score(j) = score(k) /\ j <= k)

RECURSIVE rebuildMirrorPairsFrom(_, _, _)
rebuildMirrorPairsFrom(E, i, used) ==
    IF i >= Len0(E) THEN E
    ELSE LET node == At(E, i)
         IN  IF node.id \in used THEN rebuildMirrorPairsFrom(E, i + 1, used)
             ELSE IF WithinEps(node.x) THEN rebuildMirrorPairsFrom(E, i + 1, used)
             ELSE LET bestIdx == bestPartner(E, i, used)
                  IN  IF bestIdx >= 0
                      THEN rebuildMirrorPairsFrom(
                               linkMirrorPair(E, i, bestIdx), i + 1,
                               used \cup {node.id, At(E, bestIdx).id})
                      ELSE rebuildMirrorPairsFrom(E, i + 1, used)

rebuildMirrorPairs(E) ==
    LET E1 == clearMirrorPairs(E)
    IN  IF ~E1.mirrorEnabled THEN E1 ELSE rebuildMirrorPairsFrom(E1, 0, {})

\* reconcilePair without its final else branch: a pair with neither member
\* selected is left as the displacement put it
reconcilePairNoElse(E, primaryIdx, processed) ==
    LET canonicalIdx == primaryIndexFor(E, primaryIdx)
        partnerIdx == getMirrorIndex(E, canonicalIdx)
    IN  IF canonicalIdx < 0 THEN [e |-> E, processed |-> processed]
        ELSE IF At(E, canonicalIdx).id \in processed
        THEN [e |-> E, processed |-> processed]
        ELSE IF partnerIdx < 0 THEN [e |-> E, processed |-> processed]
        ELSE
          LET primary == At(E, canonicalIdx)
              partner == At(E, partnerIdx)
              done == processed \cup {primary.id, partner.id}
              primarySelected == isIndexSelected(E, canonicalIdx)
              partnerSelected == isIndexSelected(E, partnerIdx)
              fromPrimary ==
                  [E EXCEPT !.points[partnerIdx + 1].x = -primary.x,
                            !.points[partnerIdx + 1].y = primary.y]
              fromPartner ==
                  [E EXCEPT !.points[canonicalIdx + 1].x = -partner.x,
                            !.points[canonicalIdx + 1].y = partner.y]
              avgY == Quot(primary.y + partner.y, 2)
              magnitude == Quot(Abs(primary.x) + Abs(partner.x), 2)
              primarySign == IF primary.x >= 0 THEN 1 ELSE -1
              \* the partner's assignments come last: they stand when both
              \* indices name the same node
              averaged ==
                  LET A1 == [E EXCEPT !.points[canonicalIdx + 1].y = avgY]
                      A2 == [A1 EXCEPT !.points[partnerIdx + 1].y = avgY]
                      A3 == [A2 EXCEPT !.points[canonicalIdx + 1].x =
                                            magnitude * primarySign]
                  IN  [A3 EXCEPT !.points[partnerIdx + 1].x =
                                      -(magnitude * primarySign)]
          IN  [e |-> IF primarySelected /\ ~partnerSelected THEN fromPrimary
                     ELSE IF ~primarySelected /\ partnerSelected THEN fromPartner
                     ELSE IF primarySelected /\ partnerSelected THEN averaged
                     ELSE E,
               processed |-> done]

\* One iteration of applyMirrorConstraints' forEach, for one affected index
reconcilePair(E, primaryIdx, processed) ==
    LET canonicalIdx == primaryIndexFor(E, primaryIdx)
        partnerIdx == getMirrorIndex(E, canonicalIdx)
    IN  IF canonicalIdx < 0 THEN [e |-> E, processed |-> processed]
        ELSE IF At(E, canonicalIdx).id \in processed
        THEN [e |-> E, processed |-> processed]
        ELSE IF partnerIdx < 0 THEN [e |-> E, processed |-> processed]
        ELSE
          LET primary == At(E, canonicalIdx)
              partner == At(E, partnerIdx)
              done == processed \cup {primary.id, partner.id}
              primarySelected == isIndexSelected(E, canonicalIdx)
              partnerSelected == isIndexSelected(E, partnerIdx)
              fromPrimary ==
                  [E EXCEPT !.points[partnerIdx + 1].x = -primary.x,
                            !.points[partnerIdx + 1].y = primary.y]
              fromPartner ==
                  [E EXCEPT !.points[canonicalIdx + 1].x = -partner.x,
                            !.points[canonicalIdx + 1].y = partner.y]
              avgY == Quot(primary.y + partner.y, 2)
              magnitude == Quot(Abs(primary.x) + Abs(partner.x), 2)
              primarySign == IF primary.x >= 0 THEN 1 ELSE -1
              \* the partner's assignments come last: they stand when both
              \* indices name the same node
              averaged ==
                  LET A1 == [E EXCEPT !.points[canonicalIdx + 1].y = avgY]
                      A2 == [A1 EXCEPT !.points[partnerIdx + 1].y = avgY]
                      A3 == [A2 EXCEPT !.points[canonicalIdx + 1].x =
                                            magnitude * primarySign]
                  IN  [A3 EXCEPT !.points[partnerIdx + 1].x =
                                      -(magnitude * primarySign)]
          IN  [e |-> IF primarySelected /\ ~partnerSelected THEN fromPrimary
                     ELSE IF ~primarySelected /\ partnerSelected THEN fromPartner
                     ELSE IF primarySelected /\ partnerSelected THEN averaged
                     ELSE fromPrimary,
               processed |-> done]

\* applyMirrorConstraints(affectedPrimaries), the Set given in insertion order
RECURSIVE applyMirrorConstraintsFrom(_, _, _)
applyMirrorConstraintsFrom(E, affected, processed) ==
    IF affected = <<>> THEN E
    ELSE LET r == reconcilePair(E, Head(affected), processed)
         IN  applyMirrorConstraintsFrom(r.e, Tail(affected), r.processed)

applyMirrorConstraints(E, affectedPrimaries) ==
    applyMirrorConstraintsFrom(E, affectedPrimaries, {})

\* setN(N), N = parseInt(nInput.value, 10): input is [nan, n]
setN(E, input) ==
    LET orThree == IF input.nan \/ input.n = 0 THEN 3 ELSE input.n   \* N || 3
        N == Max2(MinSides, orThree)
        made == makeRegularPolygon(E, N)
        E1 == rebuildIndex([made.e EXCEPT !.points = made.arr])
        E2 == IF E1.mirrorEnabled THEN rebuildMirrorPairs(E1) ELSE clearMirrorPairs(E1)
    IN  clearSelection(E2)

\* best taken as the distance to the lowest selected index alone, not the minimum
hopDistanceFirst(E, i, selectedIndices) ==
    LET s == CHOOSE t \in selectedIndices : \A o \in selectedIndices : t <= o
    IN  ringDistance(i, s, Len0(E))

\* best = min over the selected s of ringDistance(i, s, N)
hopDistance(E, i, selectedIndices) ==
    LET ds == {ringDistance(i, s, Len0(E)) : s \in selectedIndices}
    IN  CHOOSE d \in ds : \A o \in ds : d <= o

\* weights[i] = perHopFalloff for every hop distance within maxHops
weightOfFlat(E, best) ==
    IF best = 0 THEN [num |-> 1, den |-> 1]
    ELSE IF E.weightEnabled /\ best <= E.maxHops
         THEN [num |-> E.perHopFalloff, den |-> FalloffDen]
         ELSE [num |-> 0, den |-> 1]

\* weights[i] from best
weightOf(E, best) ==
    IF best = 0 THEN [num |-> 1, den |-> 1]
    ELSE IF E.weightEnabled /\ best <= E.maxHops
         THEN [num |-> Pow(E.perHopFalloff, best), den |-> Pow(FalloffDen, best)]
         ELSE [num |-> 0, den |-> 1]

\* affectedPrimaries: primaryIndexFor(i) of every moved i, in insertion order
RECURSIVE affectedFrom(_, _, _, _)
affectedFrom(E, movedIdx, i, acc) ==
    IF i >= Len0(E) THEN acc
    ELSE LET primaryIdx == primaryIndexFor(E, i)
             seen == {acc[k] : k \in 1 .. Len(acc)}
         IN  IF i \in movedIdx /\ primaryIdx >= 0 /\ primaryIdx \notin seen
             THEN affectedFrom(E, movedIdx, i + 1, Append(acc, primaryIdx))
             ELSE affectedFrom(E, movedIdx, i + 1, acc)

\* moveSelectedBy's set of indices with a weight other than 0
movedIndices(E, selectedIndices) ==
    {i \in Indices(E) : weightOf(E, hopDistance(E, i, selectedIndices)).num # 0}

\* moveSelectedBy's displacement loop: points[i] += (dx, dy) * weights[i]
displaceWeighted(E, selectedIndices, dx, dy) ==
    LET w(i) == weightOf(E, hopDistance(E, i, selectedIndices))
        movedIdx == movedIndices(E, selectedIndices)
    IN  [E EXCEPT !.points =
            [k \in 1 .. Len(E.points) |->
                IF (k - 1) \in movedIdx
                THEN [E.points[k] EXCEPT
                        !.x = @ + Quot(dx * w(k - 1).num, w(k - 1).den),
                        !.y = @ + Quot(dy * w(k - 1).num, w(k - 1).den)]
                ELSE E.points[k]]]

moveSelectedBy(E, dx, dy) ==
    IF E.selectedIds = {} THEN E
    ELSE LET selectedIndices == getSelectedIndices(E)
         IN  IF selectedIndices = {} THEN E
             ELSE
               LET movedIdx == movedIndices(E, selectedIndices)
                   E1 == displaceWeighted(E, selectedIndices, dx, dy)
                   affectedPrimaries == affectedFrom(E1, movedIdx, 0, <<>>)
               IN  IF E1.mirrorEnabled /\ affectedPrimaries # <<>>
                   THEN applyMirrorConstraints(E1, affectedPrimaries)
                   ELSE E1

\* insertVertexOnEdge(edgeIndex, worldPos): [e: the state after, ret: the new index]
insertVertexOnEdge(E, edgeIndex, worldPos) ==
    IF Len0(E) < 3 THEN [e |-> E, ret |-> NotFound]
    ELSE
      LET beforeLength == Len0(E)
          edgeStart == edgeIndex % beforeLength
          edgeEnd == (edgeStart + 1) % beforeLength
          endPrimaryIdx == primaryIndexFor(E, edgeEnd)
          endMirrorIdx == getMirrorIndex(E, endPrimaryIdx)
          endMirrorId == IF endMirrorIdx >= 0 THEN At(E, endMirrorIdx).id ELSE NullId
          c1 == createNode(E, worldPos[1], worldPos[2], NullId, TRUE)
          newNode == c1.node
          E1 == rebuildIndex([c1.e EXCEPT !.points = SpliceIn(@, edgeStart + 1, newNode)])
          newIdx == indexOfNodeId(E1, newNode.id)
      IN  IF E1.mirrorEnabled /\ ~WithinEps(worldPos[1])
          THEN
            LET endMirrorIdxNow == indexOfNodeId(E1, endMirrorId)
                found == IF endMirrorId # NullId /\ endMirrorIdxNow >= 0
                         THEN endMirrorIdxNow + 1 ELSE NotFound
                c2 == createNode(E1, -worldPos[1], worldPos[2], newNode.id, FALSE)
                mirrorNode == c2.node
                E2 == [c2.e EXCEPT !.points[newIdx + 1].mirrorId = mirrorNode.id]
                mirrorInsertIndex == IF found < 0 \/ found > Len0(E2)
                                     THEN newIdx + 1 ELSE found
                E3 == rebuildIndex(
                        [E2 EXCEPT !.points = SpliceIn(@, mirrorInsertIndex, mirrorNode)])
                newIdx2 == indexOfNodeId(E3, newNode.id)
                mirrorIdx == indexOfNodeId(E3, mirrorNode.id)
                E4 == IF newIdx2 >= 0 /\ mirrorIdx >= 0
                      THEN linkMirrorPair(E3, newIdx2, mirrorIdx) ELSE E3
            IN  [e |-> E4, ret |-> indexOfNodeId(E4, newNode.id)]
          ELSE [e |-> E1, ret |-> indexOfNodeId(E1, newNode.id)]

\* The Delete handler's removalSet: the selected indices and, for each, the
\* mirror index of its primary
removalSet(E) ==
    LET selectedIndices == getSelectedIndices(E)
        partners == {getMirrorIndex(E, primaryIndexFor(E, idx)) : idx \in selectedIndices}
    IN  selectedIndices \cup {p \in partners : p >= 0}

\* the Delete handler recording its history entry before the size check
deleteSelectedEager(E) ==
    IF E.selectedIds = {} THEN E
    ELSE LET rm == removalSet(E)
             E1 == IF ~E.suppressHistory
                   THEN historyRecord(E, "Delete Vertices") ELSE E
         IN  IF Len0(E) - Cardinality(rm) >= 3
             THEN LET E2 == [E1 EXCEPT !.points = SpliceOut(@, rm)]
                      E3 == rebuildIndex(clearSelection(E2))
                  IN  IF E3.mirrorEnabled THEN rebuildMirrorPairs(E3) ELSE E3
             ELSE E1

\* the Delete handler with the size check ">= 2"
deleteSelectedLax(E) ==
    IF E.selectedIds = {} THEN E
    ELSE LET rm == removalSet(E)
         IN  IF Len0(E) - Cardinality(rm) >= 2
             THEN LET E1 == IF ~E.suppressHistory
                            THEN historyRecord(E, "Delete Vertices") ELSE E
                      E2 == [E1 EXCEPT !.points = SpliceOut(@, rm)]
                      E3 == rebuildIndex(clearSelection(E2))
                  IN  IF E3.mirrorEnabled THEN rebuildMirrorPairs(E3) ELSE E3
             ELSE E

\* the Delete handler that leaves the selection as it was
deleteSelectedKeepingSelection(E) ==
    IF E.selectedIds = {} THEN E
    ELSE LET rm == removalSet(E)
         IN  IF Len0(E) - Cardinality(rm) >= 3
             THEN LET E1 == IF ~E.suppressHistory
                            THEN historyRecord(E, "Delete Vertices") ELSE E
                      E2 == [E1 EXCEPT !.points = SpliceOut(@, rm)]
                      E3 == rebuildIndex(E2)
                  IN  IF E3.mirrorEnabled THEN rebuildMirrorPairs(E3) ELSE E3
             ELSE E

\* keydown Delete/Backspace
deleteSelected(E) ==
    IF E.selectedIds = {} THEN E
    ELSE LET rm == removalSet(E)
         IN  IF Len0(E) - Cardinality(rm) >= 3
             THEN LET E1 == IF ~E.suppressHistory
                            THEN historyRecord(E, "Delete Vertices") ELSE E
                      E2 == [E1 EXCEPT !.points = SpliceOut(@, rm)]
                      E3 == rebuildIndex(clearSelection(E2))
                  IN  IF E3.mirrorEnabled THEN rebuildMirrorPairs(E3) ELSE E3
             ELSE E

\* mirrorChk change: mirrorEnabled = mirrorChk.checked, which the click flipped
toggleMirror(E) ==
    IF E.suppressHistory THEN E
    ELSE LET E1 == historyRecord(E, "Toggle Mirror")
             E2 == [E1 EXCEPT !.mirrorEnabled = ~E.mirrorEnabled]
         IN  IF E2.mirrorEnabled
             THEN LET E3 == rebuildMirrorPairs(E2)
                      primaries == SelectSeq([k \in 1 .. Len0(E3) |-> k - 1],
                                      LAMBDA i : At(E3, i).mirrorId # NullId
                                                 /\ At(E3, i).primary)
                  IN  IF primaries # <<>> THEN applyMirrorConstraints(E3, primaries)
                      ELSE E3
             ELSE clearMirrorPairs(E2)

\* centerBtn click
centerView(E) ==
    IF E.suppressHistory THEN E
    ELSE [historyRecord(E, "Center View") EXCEPT !.pan = <<0, 0>>, !.zoom = ZoomDen]

\* wheel: zoom = clamp(zoom * factor, 0.2, 5), then pan so the mouse stays put.
\* target = zoom * factor in tenths; offset = the mouse's canvas offset
\* <<mouse.x - cx, cy - mouse.y>> from the world origin.
wheelZoom(E, target, offset) ==
    LET z0 == E.zoom
        z1 == Max2(ZoomMin, Min2(ZoomMax, target))
    IN  [E EXCEPT !.zoom = z1,
                  !.pan = <<E.pan[1] + Quot(offset[1] * (z0 - z1), z0),
                            E.pan[2] - Quot(offset[2] * (z0 - z1), z0)>>]

----------------------------------------------------------------------------
\* The view transforms.  Screen coordinates are integers in 1/560 of a pixel
\* (world eighths times zoom tenths times 7, so that half the canvas is whole);
\* pan is in eighths of a pixel.  A coordinate that a division produces is the
\* fraction [num, den], den > 0.

ScreenPerPan == 70       \* screen units per unit of pan (1/8 px)
ScreenPerWorld == 7      \* screen units per world eighth at zoom 1/10
CanvasHalf == 6400       \* canvas.clientWidth / 2 = clientHeight / 2, R = 0.35 * 2 * this

Frac(n) == [num |-> n, den |-> 1]
FracEq(a, b) == a.num * b.den = b.num * a.den
FracLeq(a, b) == a.num * b.den <= b.num * a.den
Whole(a) == a.num \div a.den          \* a fraction with den = 1
GridPoint(x, y) == [x |-> Frac(x), y |-> Frac(y)]

\* worldToCanvas(p) = {x: cx + p.x * zoom, y: cy - p.y * zoom}
worldToCanvasUnflipped(E, p) ==
    LET cx == CanvasHalf + ScreenPerPan * E.pan[1]
        cy == CanvasHalf + ScreenPerPan * E.pan[2]
        k == ScreenPerWorld * E.zoom
    IN  [x |-> [num |-> cx * p.x.den + k * p.x.num, den |-> p.x.den],
         y |-> [num |-> cy * p.y.den + k * p.y.num, den |-> p.y.den]]

worldToCanvas(E, p) ==
    LET cx == CanvasHalf + ScreenPerPan * E.pan[1]
        cy == CanvasHalf + ScreenPerPan * E.pan[2]
        k == ScreenPerWorld * E.zoom
    IN  [x |-> [num |-> cx * p.x.den + k * p.x.num, den |-> p.x.den],
         y |-> [num |-> cy * p.y.den - k * p.y.num, den |-> p.y.den]]

\* canvasToWorld(p) = {x: (p.x - cx) / zoom, y: (cy - p.y) / zoom}
canvasToWorld(E, q) ==
    LET cx == CanvasHalf + ScreenPerPan * E.pan[1]
        cy == CanvasHalf + ScreenPerPan * E.pan[2]
        k == ScreenPerWorld * E.zoom
    IN  [x |-> [num |-> q.x.num - cx * q.x.den, den |-> k * q.x.den],
         y |-> [num |-> cy * q.y.den - q.y.num, den |-> k * q.y.den]]

\* the canvas position of node i
NodeOnCanvas(E, i) == worldToCanvas(E, GridPoint(At(E, i).x, At(E, i).y))

\* rectContainsPointScreen(rect, pt)
rectContainsPointScreen(rect, pt) ==
    LET x1 == Frac(Min2(rect.x1, rect.x2))
        y1 == Frac(Min2(rect.y1, rect.y2))
        x2 == Frac(Max2(rect.x1, rect.x2))
        y2 == Frac(Max2(rect.y1, rect.y2))
    IN  FracLeq(x1, pt.x) /\ FracLeq(pt.x, x2) /\ FracLeq(y1, pt.y) /\ FracLeq(pt.y, y2)

\* the nodes selectInScreenRect's loop finds inside rect
nodesInRect(E, rect) ==
    {i \in Indices(E) : rectContainsPointScreen(rect, NodeOnCanvas(E, i))}

\* selectInScreenRect that adds the id of the node found, not of its primary
selectInScreenRectRaw(E, rect, mode) ==
    LET base == IF mode = "add" THEN E.selectedIds ELSE {}
    IN  [E EXCEPT !.selectedIds = base \cup {At(E, i).id : i \in nodesInRect(E, rect)}]

\* selectInScreenRect(rect, mode), mode 'replace' or 'add'
selectInScreenRect(E, rect, mode) ==
    LET base == IF mode = "add" THEN E.selectedIds ELSE {}
        found == {primaryIndexFor(E, i) : i \in nodesInRect(E, rect)}
    IN  [E EXCEPT !.selectedIds =
            base \cup {At(E, k).id : k \in {j \in found : j >= 0}}]

HitThreshold == 4480     \* hitTest: thresh = 8 px

\* hitTest(pt) < 0 for the canvas point pt = <<x, y>>: no handle is nearer than thresh
OffEveryHandle(E, pt) ==
    \A i \in Indices(E) :
        LET c == NodeOnCanvas(E, i)
            dx == pt[1] - Whole(c.x)
            dy == pt[2] - Whole(c.y)
        IN  ~(dx * dx + dy * dy < HitThreshold * HitThreshold)

----------------------------------------------------------------------------
\* Inputs of the explored sessions

InitSides == {3, 4}                      \* nInput's value when the page loads
SidesInputs == {[nan |-> TRUE, n |-> 0], [nan |-> FALSE, n |-> 0],
                [nan |-> FALSE, n |-> 2], [nan |-> FALSE, n |-> 5]}
Deltas == {<<64, 0>>, <<0, 64>>, <<-128, 64>>}   \* mouse movement per mousemove
FalloffInputs == {1, 2}                  \* 0.5 and 1, in halves
HopsInputs == {0, 2, 40}                 \* parseInt(hopsInput.value)
WheelTargets == {1, 20, 60}              \* zoom * factor, in tenths
WheelOffsets == {<<100, -100>>}

----------------------------------------------------------------------------
\* The state machine

Cur ==
    [points |-> points, nodeIdCounter |-> nodeIdCounter, idToIndex |-> idToIndex,
     selectedIds |-> selectedIds, pan |-> pan, zoom |-> zoom,
     mirrorEnabled |-> mirrorEnabled, weightEnabled |-> weightEnabled,
     perHopFalloff |-> perHopFalloff, maxHops |-> maxHops,
     suppressHistory |-> suppressHistory,
     past |-> past, future |-> future, checkpoint |-> checkpoint,
     issuedIds |-> issuedIds]

\* The capture steps after a handler that leaves the history manager as in E:
\* a commit pushes the checkpoint with the step of its begin, record and redo
\* push a snapshot taken in this step, undo and clear take entries off
\* the components outside the polygon editor, the frames and the tools
partVars == <<emitter, selectedVertices>>

\* new EventEmitter(): _events = {}; nothing delivered, nothing taken off
NoEmitter ==
    [events |-> [set |-> FALSE, cbs |-> <<>>],
     delivering |-> [active |-> FALSE, array |-> <<>>, k |-> 0],
     serial |-> 0, removed |-> {}, late |-> {}]

InitParts ==
    /\ emitter = NoEmitter
    /\ selectedVertices = <<>>

Stamped(E) ==
    LET now == steps + 1
        committed == /\ checkpoint # NoCheckpoint
                     /\ E.checkpoint = NoCheckpoint
                     /\ Len(E.past) > 0
                     /\ E.past[Len(E.past)] = checkpoint[1]
    IN  [past |-> IF Len(E.past) <= Len(past)
                  THEN SubSeq(capturedAt.past, 1, Len(E.past))
                  ELSE capturedAt.past \o
                       [k \in 1 .. (Len(E.past) - Len(past)) |->
                           IF committed THEN capturedAt.checkpoint ELSE now],
         checkpoint |-> IF E.checkpoint = NoCheckpoint THEN 0
                        ELSE IF E.checkpoint = checkpoint THEN capturedAt.checkpoint
                        ELSE now]

\* the stacks the session starts with were filled before its first step
InitCaptured ==
    capturedAt = [past |-> [k \in 1 .. Len(past) |-> 0], checkpoint |-> 0]

Becomes(E) ==
    /\ capturedAt' = Stamped(E)
    /\ UNCHANGED partVars
    /\ points' = E.points
    /\ nodeIdCounter' = E.nodeIdCounter
    /\ idToIndex' = E.idToIndex
    /\ selectedIds' = E.selectedIds
    /\ pan' = E.pan
    /\ zoom' = E.zoom
    /\ mirrorEnabled' = E.mirrorEnabled
    /\ weightEnabled' = E.weightEnabled
    /\ perHopFalloff' = E.perHopFalloff
    /\ maxHops' = E.maxHops
    /\ suppressHistory' = E.suppressHistory
    /\ past' = E.past
    /\ future' = E.future
    /\ checkpoint' = E.checkpoint
    /\ issuedIds' = E.issuedIds

dragVars == <<dragging, dragMode, moveHistoryActive, moveApplied,
              activeDragCanonical, activeDragIsMirror>>

\* boxStart = boxEnd = null, boxAdditive = false
NoBox == [start |-> <<>>, end |-> <<>>, additive |-> FALSE]

\* the state of the parts of the program a specification leaves out
\* ToolManager's and HistoryManager's fields
toolVars == <<currentTool, toolState, undoStack, redoStack>>

NoPath == [set |-> FALSE, pts |-> <<>>]      \* currentPath undefined or null

\* new ToolManager(app), new HistoryManager(app)
InitTool ==
    /\ currentTool = "select"
    /\ toolState = [currentPath |-> NoPath, pendingShape |-> FALSE]
    /\ undoStack = <<>>
    /\ redoStack = <<>>

extVars == <<box, frames, currentFrameIndex, activeLayerId, uid, toolVars>>

InitExt ==
    /\ box = NoBox
    /\ frames = <<>>
    /\ currentFrameIndex = 0
    /\ activeLayerId = <<>>
    /\ uid = 0
    /\ InitTool

Event(name) ==
    /\ steps < MaxSteps /\ steps' = steps + 1 /\ lastOp' = name /\ heap' = heap
    /\ UNCHANGED extVars

\* The module's top-level state before its Init section runs
Blank ==
    [points |-> <<>>, nodeIdCounter |-> 1, idToIndex |-> <<>>,
     selectedIds |-> {}, pan |-> <<0, 0>>, zoom |-> ZoomDen,
     mirrorEnabled |-> FALSE, weightEnabled |-> FALSE,
     perHopFalloff |-> InitialFalloff, maxHops |-> InitialHops,
     suppressHistory |-> FALSE,
     past |-> <<>>, future |-> <<>>, checkpoint |-> NoCheckpoint,
     issuedIds |-> <<>>]

\* setN(parseInt(nInput.value, 10)); centerBtn.click(); history.clear();
Loaded(n) == historyClear(centerView(setN(Blank, [nan |-> FALSE, n |-> n])))

Init ==
    /\ \E n \in InitSides :
         LET E == Loaded(n)
         IN  /\ points = E.points
             /\ nodeIdCounter = E.nodeIdCounter
             /\ idToIndex = E.idToIndex
             /\ selectedIds = E.selectedIds
             /\ pan = E.pan
             /\ zoom = E.zoom
             /\ mirrorEnabled = E.mirrorEnabled
             /\ weightEnabled = E.weightEnabled
             /\ perHopFalloff = E.perHopFalloff
             /\ maxHops = E.maxHops
             /\ suppressHistory = E.suppressHistory
             /\ past = E.past
             /\ future = E.future
             /\ checkpoint = E.checkpoint
             /\ issuedIds = E.issuedIds
    /\ dragging = FALSE
    /\ dragMode = "null"
    /\ moveHistoryActive = FALSE
    /\ moveApplied = FALSE
    /\ activeDragCanonical = NotFound
    /\ activeDragIsMirror = FALSE
    /\ lastOp = "init"
    /\ steps = 0
    /\ heap = <<>>
    /\ InitExt
    /\ InitCaptured
    /\ InitParts

\* hitTest(pt) = idx for the pt at idx's handle: the first of the nearest handles wins
Hittable(E, idx) ==
    /\ HasIdx(E, idx)
    /\ \A j \in Indices(E) :
          j < idx => ~(At(E, j).x = At(E, idx).x /\ At(E, j).y = At(E, idx).y)

\* mousedown on the handle of node idx; mod = shiftKey || metaKey || ctrlKey
MouseDownVertex(idx, mod) ==
    /\ Hittable(Cur, idx)
    /\ Event("mousedownVertex")
    /\ LET E == Cur
           canonicalIdx == primaryIndexFor(E, idx)
           selectionIdx == IF canonicalIdx >= 0 THEN canonicalIdx ELSE idx
           E1 == IF mod
                 THEN IF isIndexSelected(E, selectionIdx)
                      THEN removeIndexFromSelection(E, selectionIdx)
                      ELSE addIndexToSelection(E, selectionIdx)
                 ELSE IF ~isIndexSelected(E, selectionIdx)
                      THEN addIndexToSelection(clearSelection(E), selectionIdx)
                      ELSE E
       IN  IF isIndexSelected(E1, selectionIdx)
           THEN /\ Becomes(historyBegin(E1, "Move Vertices"))
                /\ dragging' = TRUE
                /\ dragMode' = "move"
                /\ moveHistoryActive' = TRUE
                /\ moveApplied' = FALSE
                /\ activeDragCanonical' = selectionIdx
                /\ activeDragIsMirror' = (idx # selectionIdx)
           ELSE /\ Becomes(E1)
                /\ dragging' = FALSE
                /\ dragMode' = "null"
                /\ activeDragCanonical' = NotFound
                /\ activeDragIsMirror' = FALSE
                /\ UNCHANGED <<moveHistoryActive, moveApplied>>

\* What nearestEdge(pt) can return for a pt off every handle: an edge and the
\* closest point on it, here its midpoint (when integral) or its end point
\* (the lowest edge through a vertex wins the tie)
InsertTargets(E) ==
    LET N == Len0(E)
        a(i) == At(E, i)
        b(i) == At(E, (i + 1) % N)
    IN  {[i |-> i, pos |-> <<(a(i).x + b(i).x) \div 2, (a(i).y + b(i).y) \div 2>>] :
            i \in {j \in Indices(E) : (a(j).x + b(j).x) % 2 = 0
                                      /\ (a(j).y + b(j).y) % 2 = 0}}
        \cup {[i |-> i, pos |-> <<b(i).x, b(i).y>>] : i \in 0 .. (N - 2)}

\* mousedown with shiftKey off every handle: insert a vertex on the nearest edge
MouseDownInsert(target) ==
    /\ Event("insert")
    /\ LET E == Cur
           E1 == IF ~E.suppressHistory THEN historyRecord(E, "Insert Vertex") ELSE E
           r == insertVertexOnEdge(E1, target.i, target.pos)
       IN  IF r.ret >= 0
           THEN Becomes(addIndexToSelection(clearSelection(r.e), r.ret))
           ELSE Becomes(r.e)
    /\ UNCHANGED dragVars

\* mousedown off every handle, without shift, with the right or middle button
MouseDownPan ==
    /\ Event("mousedownPan")
    /\ dragging' = TRUE
    /\ dragMode' = "pan"
    /\ UNCHANGED <<moveHistoryActive, moveApplied, activeDragCanonical,
                   activeDragIsMirror>>
    /\ Becomes(Cur)

\* mousemove while dragging; d = the mouse's movement since the last event
\* (in world units for a move, in pixels for a pan)
MouseMove(d) ==
    /\ dragging
    /\ dragMode \in {"move", "pan"}
    /\ Event("mousemove")
    /\ IF dragMode = "move"
       THEN /\ Becomes(moveSelectedBy(Cur, IF activeDragIsMirror THEN -d[1] ELSE d[1],
                                      d[2]))
            /\ moveApplied' = (moveApplied \/ ~WithinEps(d[1]) \/ ~WithinEps(d[2]))
       ELSE /\ Becomes([Cur EXCEPT !.pan = <<pan[1] + d[1], pan[2] + d[2]>>])
            /\ UNCHANGED moveApplied
    /\ UNCHANGED <<dragging, dragMode, moveHistoryActive, activeDragCanonical,
                   activeDragIsMirror>>

\* mouseup and mouseleave end the gesture alike (mouseleave also clears hoverIdx)
EndGesture(name) ==
    /\ dragging \/ moveHistoryActive
    /\ Event(name)
    /\ IF moveHistoryActive
       THEN /\ Becomes(IF moveApplied THEN historyCommit(Cur) ELSE historyCancel(Cur))
            /\ moveHistoryActive' = FALSE
            /\ moveApplied' = FALSE
       ELSE /\ Becomes(Cur)
            /\ UNCHANGED <<moveHistoryActive, moveApplied>>
    /\ dragging' = FALSE
    /\ dragMode' = "null"
    /\ activeDragCanonical' = NotFound
    /\ activeDragIsMirror' = FALSE

MouseUp == EndGesture("mouseup")

MouseLeave == EndGesture("mouseleave")

Wheel(target, offset) ==
    /\ Event("wheel")
    /\ Becomes(wheelZoom(Cur, target, offset))
    /\ UNCHANGED dragVars

\* keydown Ctrl+Z / Ctrl+Shift+Z: the drag state is reset, then history.undo/redo
ResetDragState ==
    /\ IF moveHistoryActive
       THEN moveHistoryActive' = FALSE /\ moveApplied' = FALSE
       ELSE UNCHANGED <<moveHistoryActive, moveApplied>>
    /\ IF dragging
       THEN /\ dragging' = FALSE
            /\ dragMode' = "null"
            /\ activeDragCanonical' = NotFound
            /\ activeDragIsMirror' = FALSE
       ELSE UNCHANGED <<dragging, dragMode, activeDragCanonical, activeDragIsMirror>>

KeyUndo ==
    /\ Event("undo")
    /\ ResetDragState
    /\ Becomes(historyUndo(Cur))

KeyRedo ==
    /\ Event("redo")
    /\ ResetDragState
    /\ Becomes(historyRedo(Cur))

KeyDelete ==
    /\ Event("delete")
    /\ Becomes(deleteSelected(Cur))
    /\ UNCHANGED dragVars

\* nInput change (resetBtn does the same under the label "Reset Polygon")
SidesChange(input) ==
    /\ Event("setN")
    /\ Becomes(IF suppressHistory THEN Cur
               ELSE setN(historyRecord(Cur, "Change Sides"), input))
    /\ UNCHANGED dragVars

CenterBtn ==
    /\ Event("center")
    /\ Becomes(centerView(Cur))
    /\ UNCHANGED dragVars

MirrorChk ==
    /\ Event("mirror")
    /\ Becomes(toggleMirror(Cur))
    /\ UNCHANGED dragVars

WeightChk ==
    /\ Event("weight")
    /\ Becomes(IF suppressHistory THEN Cur
               ELSE [historyRecord(Cur, "Toggle Weights") EXCEPT
                        !.weightEnabled = ~weightEnabled])
    /\ UNCHANGED dragVars

FalloffInput(v) ==
    /\ Event("falloff")
    /\ Becomes(IF suppressHistory THEN Cur
               ELSE [historyRecord(Cur, "Change Falloff") EXCEPT !.perHopFalloff = v])
    /\ UNCHANGED dragVars

HopsInput(v) ==
    /\ Event("hops")
    /\ Becomes(IF suppressHistory THEN Cur
               ELSE [historyRecord(Cur, "Change Hops") EXCEPT
                        !.maxHops = Max2(HopsMin, Min2(HopsMax, v))])
    /\ UNCHANGED dragVars

Next ==
    \/ \E idx \in Indices(Cur), mod \in BOOLEAN : MouseDownVertex(idx, mod)
    \/ \E target \in InsertTargets(Cur) : MouseDownInsert(target)
    \/ MouseDownPan
    \/ \E d \in Deltas : MouseMove(d)
    \/ MouseUp
    \/ MouseLeave
    \/ \E target \in WheelTargets, offset \in WheelOffsets : Wheel(target, offset)
    \/ KeyUndo
    \/ KeyRedo
    \/ KeyDelete
    \/ \E input \in SidesInputs : SidesChange(input)
    \/ CenterBtn
    \/ MirrorChk
    \/ WeightChk
    \/ \E v \in FalloffInputs : FalloffInput(v)
    \/ \E v \in HopsInputs : HopsInput(v)

Spec == Init /\ [][Next]_vars

----------------------------------------------------------------------------
\* A drag in progress: the page as loaded, then a mousedown on the handle of
\* node idx without a modifier (the handle is selected and history.begin has
\* opened the gesture's checkpoint), then any handlers

GrabbedAt(n, idx) ==
    historyBegin(addIndexToSelection(clearSelection(Loaded(n)), idx), "Move Vertices")

InitGesture ==
    /\ \E n \in InitSides : \E idx \in 0 .. (n - 1) :
          LET E == GrabbedAt(n, idx)
          IN  /\ points = E.points
              /\ nodeIdCounter = E.nodeIdCounter
              /\ idToIndex = E.idToIndex
              /\ selectedIds = E.selectedIds
              /\ pan = E.pan
              /\ zoom = E.zoom
              /\ mirrorEnabled = E.mirrorEnabled
              /\ weightEnabled = E.weightEnabled
              /\ perHopFalloff = E.perHopFalloff
              /\ maxHops = E.maxHops
              /\ suppressHistory = E.suppressHistory
              /\ past = E.past
              /\ future = E.future
              /\ checkpoint = E.checkpoint
              /\ issuedIds = E.issuedIds
              /\ activeDragCanonical = idx
    /\ dragging = TRUE
    /\ dragMode = "move"
    /\ moveHistoryActive = TRUE
    /\ moveApplied = FALSE
    /\ activeDragIsMirror = FALSE
    /\ lastOp = "mousedownVertex"
    /\ steps = 0
    /\ heap = <<>>
    /\ InitExt
    /\ InitCaptured
    /\ InitParts

SpecGesture == InitGesture /\ [][Next]_vars

----------------------------------------------------------------------------
\* moveSelectedBy on its own: the editor with mirroring enabled on a regular
\* polygon, any non-empty selection and any weighting, then a run of
\* displacement steps as a drag delivers them

MaxMoves == 2            \* displacement steps per explored drag

MoveSides == {3, 4, 5, 6}
MoveHops == {1, 2, 3}

\* The state after the ids in sel were selected, the weighting set, and the
\* mirror checkbox ticked
MirroredWith(n, sel, w, f, h) ==
    toggleMirror([Loaded(n) EXCEPT !.selectedIds = sel, !.weightEnabled = w,
                                   !.perHopFalloff = f, !.maxHops = h])

InitMove ==
    /\ \E n \in MoveSides, w \in BOOLEAN, f \in FalloffInputs, h \in MoveHops :
         \E sel \in (SUBSET (1 .. n)) \ {{}} :
           LET E == MirroredWith(n, sel, w, f, h)
           IN  /\ points = E.points
               /\ nodeIdCounter = E.nodeIdCounter
               /\ idToIndex = E.idToIndex
               /\ selectedIds = E.selectedIds
               /\ pan = E.pan
               /\ zoom = E.zoom
               /\ mirrorEnabled = E.mirrorEnabled
               /\ weightEnabled = E.weightEnabled
               /\ perHopFalloff = E.perHopFalloff
               /\ maxHops = E.maxHops
               /\ suppressHistory = E.suppressHistory
               /\ past = E.past
               /\ future = E.future
               /\ checkpoint = E.checkpoint
               /\ issuedIds = E.issuedIds
    /\ dragging = TRUE
    /\ dragMode = "move"
    /\ moveHistoryActive = FALSE
    /\ moveApplied = FALSE
    /\ activeDragCanonical = NotFound
    /\ activeDragIsMirror = FALSE
    /\ lastOp = "init"
    /\ steps = 0
    /\ heap = <<>>
    /\ InitExt
    /\ InitCaptured
    /\ InitParts

MoveStep(d) ==
    /\ steps < MaxMoves
    /\ steps' = steps + 1
    /\ heap' = heap
    /\ UNCHANGED extVars
    /\ lastOp' = "move"
    /\ Becomes(moveSelectedBy(Cur, d[1], d[2]))
    /\ UNCHANGED dragVars

NextMove == \E d \in Deltas : MoveStep(d)

SpecMove == InitMove /\ [][NextMove]_vars

----------------------------------------------------------------------------
\* unlinkMirror on its own: a mirrored polygon as in SpecMove, then calls of
\* unlinkMirror with any index

UnlinkIndexes == -1 .. 6

Unlink(idx) ==
    /\ steps < MaxMoves
    /\ steps' = steps + 1
    /\ heap' = heap
    /\ UNCHANGED extVars
    /\ lastOp' = "unlink"
    /\ Becomes(unlinkMirror(Cur, idx))
    /\ UNCHANGED dragVars

NextUnlink == \E idx \in UnlinkIndexes : Unlink(idx)

SpecUnlink == InitMove /\ [][NextUnlink]_vars

----------------------------------------------------------------------------
\* moveSelectedBy with mirroring off as well as on: a regular polygon of up to
\* 7 nodes, any non-empty selection, any weighting, then displacement steps

WeightSides == {3, 4, 5, 6, 7}

\* The state after the ids in sel were selected and the weighting set, the
\* mirror checkbox ticked or not
SelectedWith(n, sel, m, w, f, h) ==
    IF m THEN MirroredWith(n, sel, w, f, h)
    ELSE [Loaded(n) EXCEPT !.selectedIds = sel, !.weightEnabled = w,
                           !.perHopFalloff = f, !.maxHops = h]

InitWeights ==
    /\ \E n \in WeightSides, m \in BOOLEAN, w \in BOOLEAN,
          f \in FalloffInputs, h \in MoveHops :
         \E sel \in (SUBSET (1 .. n)) \ {{}} :
           LET E == SelectedWith(n, sel, m, w, f, h)
           IN  /\ points = E.points
               /\ nodeIdCounter = E.nodeIdCounter
               /\ idToIndex = E.idToIndex
               /\ selectedIds = E.selectedIds
               /\ pan = E.pan
               /\ zoom = E.zoom
               /\ mirrorEnabled = E.mirrorEnabled
               /\ weightEnabled = E.weightEnabled
               /\ perHopFalloff = E.perHopFalloff
               /\ maxHops = E.maxHops
               /\ suppressHistory = E.suppressHistory
               /\ past = E.past
               /\ future = E.future
               /\ checkpoint = E.checkpoint
               /\ issuedIds = E.issuedIds
    /\ dragging = TRUE
    /\ dragMode = "move"
    /\ moveHistoryActive = FALSE
    /\ moveApplied = FALSE
    /\ activeDragCanonical = NotFound
    /\ activeDragIsMirror = FALSE
    /\ lastOp = "init"
    /\ steps = 0
    /\ heap = <<>>
    /\ InitExt
    /\ InitCaptured
    /\ InitParts

SpecWeights == InitWeights /\ [][NextMove]_vars

----------------------------------------------------------------------------
\* The history manager at the level of object references.  heap is the
\* sequence of objects allocated so far and an address is an index into it: a
\* node object, the selectedIds Set (or a snapshot's array of ids), a pan
\* object.  The live points array holds node addresses, selectedIds and pan
\* hold the address of their object, and a snapshot holds the addresses of the
\* objects it was given.  Assignments to a property change the object in
\* place, for every holder of its address.

MaxRefSteps == 5         \* events per explored session of SpecRefs

RefSides == {3}
RefDeltas == {<<64, 0>>}
RefWheelTargets == {20}

RefCur ==
    [heap |-> heap, points |-> points, selectedIds |-> selectedIds, pan |-> pan,
     zoom |-> zoom, mirrorEnabled |-> mirrorEnabled,
     nodeIdCounter |-> nodeIdCounter, weightEnabled |-> weightEnabled,
     perHopFalloff |-> perHopFalloff, maxHops |-> maxHops,
     past |-> past, future |-> future, checkpoint |-> checkpoint]

RefBecomes(G) ==
    /\ heap' = G.heap
    /\ points' = G.points
    /\ selectedIds' = G.selectedIds
    /\ pan' = G.pan
    /\ zoom' = G.zoom
    /\ mirrorEnabled' = G.mirrorEnabled
    /\ nodeIdCounter' = G.nodeIdCounter
    /\ weightEnabled' = G.weightEnabled
    /\ perHopFalloff' = G.perHopFalloff
    /\ maxHops' = G.maxHops
    /\ past' = G.past
    /\ future' = G.future
    /\ checkpoint' = G.checkpoint
    /\ UNCHANGED <<idToIndex, suppressHistory, issuedIds>>

\* the objects the addresses of a snapshot (or of the live state) lead to
Deref(h, state) ==
    [points |-> [k \in 1 .. Len(state.points) |-> h[state.points[k]]],
     selectedIds |-> h[state.selectedIds],
     pan |-> h[state.pan],
     zoom |-> state.zoom,
     mirrorEnabled |-> state.mirrorEnabled,
     nodeIdCounter |-> state.nodeIdCounter,
     weightEnabled |-> state.weightEnabled,
     perHopFalloff |-> state.perHopFalloff,
     maxHops |-> state.maxHops]

\* snapshot that stores the live objects themselves: points, selectedIds, pan
snapshotRefsShared(G) ==
    [g |-> G,
     state |-> [points |-> G.points, selectedIds |-> G.selectedIds, pan |-> G.pan,
                zoom |-> G.zoom, mirrorEnabled |-> G.mirrorEnabled,
                nodeIdCounter |-> G.nodeIdCounter,
                weightEnabled |-> G.weightEnabled,
                perHopFalloff |-> G.perHopFalloff, maxHops |-> G.maxHops]]

\* snapshot(): points.map(cloneNode), Array.from(selectedIds), {x: pan.x, y: pan.y}
\* are new objects; [g: the state with them allocated, state: the snapshot]
snapshotRefs(G) ==
    LET n == Len(G.points)
        base == Len(G.heap)
        clones == [k \in 1 .. n |-> cloneNode(G.heap[G.points[k]])]
        fresh == clones \o <<G.heap[G.selectedIds],
                             <<G.heap[G.pan][1], G.heap[G.pan][2]>> >>
    IN  [g |-> [G EXCEPT !.heap = @ \o fresh],
         state |-> [points |-> [k \in 1 .. n |-> base + k],
                    selectedIds |-> base + n + 1,
                    pan |-> base + n + 2,
                    zoom |-> G.zoom, mirrorEnabled |-> G.mirrorEnabled,
                    nodeIdCounter |-> G.nodeIdCounter,
                    weightEnabled |-> G.weightEnabled,
                    perHopFalloff |-> G.perHopFalloff, maxHops |-> G.maxHops]]

\* restore(state): the live state gets new objects copied from the snapshot's
restoreRefs(G, state) ==
    LET n == Len(state.points)
        base == Len(G.heap)
        clones == [k \in 1 .. n |-> cloneNode(G.heap[state.points[k]])]
        fresh == clones \o <<G.heap[state.selectedIds],
                             <<G.heap[state.pan][1], G.heap[state.pan][2]>> >>
    IN  [G EXCEPT !.heap = @ \o fresh,
                  !.points = [k \in 1 .. n |-> base + k],
                  !.selectedIds = base + n + 1,
                  !.pan = base + n + 2,
                  !.zoom = state.zoom,
                  !.mirrorEnabled = state.mirrorEnabled,
                  !.nodeIdCounter = state.nodeIdCounter,
                  !.weightEnabled = state.weightEnabled,
                  !.perHopFalloff = state.perHopFalloff,
                  !.maxHops = state.maxHops]

beginRefs(G, label) ==
    IF G.checkpoint # NoCheckpoint THEN G
    ELSE LET sn == snapshotRefs(G)
         IN  [sn.g EXCEPT !.checkpoint = <<[label |-> label, state |-> sn.state]>>]

commitRefs(G) ==
    IF G.checkpoint = NoCheckpoint THEN G
    ELSE [G EXCEPT !.past = Append(@, G.checkpoint[1]),
                   !.future = <<>>,
                   !.checkpoint = NoCheckpoint]

cancelRefs(G) == [G EXCEPT !.checkpoint = NoCheckpoint]

recordRefs(G, label) ==
    LET sn == snapshotRefs(G)
    IN  [sn.g EXCEPT !.past = Append(@, [label |-> label, state |-> sn.state]),
                     !.future = <<>>]

undoRefs(G) ==
    LET G0 == IF G.checkpoint # NoCheckpoint THEN cancelRefs(G) ELSE G
    IN  IF Len(G0.past) = 0 THEN G0
        ELSE LET sn == snapshotRefs(G0)
                 entry == G0.past[Len(G0.past)]
                 G1 == [sn.g EXCEPT
                          !.past = SubSeq(@, 1, Len(@) - 1),
                          !.future = Append(@, [label |-> entry.label,
                                                state |-> sn.state])]
             IN  restoreRefs(G1, entry.state)

redoRefs(G) ==
    IF Len(G.future) = 0 THEN G
    ELSE LET sn == snapshotRefs(G)
             entry == G.future[Len(G.future)]
             G1 == [sn.g EXCEPT
                      !.future = SubSeq(@, 1, Len(@) - 1),
                      !.past = Append(@, [label |-> entry.label,
                                          state |-> sn.state])]
         IN  restoreRefs(G1, entry.state)

\* The page as loaded, with every object of the live state on the heap
InitRefs ==
    /\ \E n \in RefSides :
         LET E == Loaded(n)
             N == Len(E.points)
         IN  /\ heap = E.points \o <<E.selectedIds, E.pan>>
             /\ points = [k \in 1 .. N |-> k]
             /\ selectedIds = N + 1
             /\ pan = N + 2
             /\ nodeIdCounter = E.nodeIdCounter
             /\ idToIndex = E.idToIndex
             /\ zoom = E.zoom
             /\ mirrorEnabled = E.mirrorEnabled
             /\ weightEnabled = E.weightEnabled
             /\ perHopFalloff = E.perHopFalloff
             /\ maxHops = E.maxHops
             /\ suppressHistory = E.suppressHistory
             /\ past = E.past
             /\ future = E.future
             /\ checkpoint = E.checkpoint
             /\ issuedIds = E.issuedIds
    /\ dragging = FALSE
    /\ dragMode = "null"
    /\ moveHistoryActive = FALSE
    /\ moveApplied = FALSE
    /\ activeDragCanonical = NotFound
    /\ activeDragIsMirror = FALSE
    /\ lastOp = "init"
    /\ steps = 0
    /\ InitExt
    /\ InitCaptured
    /\ InitParts

RefEvent(name) ==
    /\ steps < MaxRefSteps /\ steps' = steps + 1 /\ lastOp' = name
    /\ UNCHANGED extVars
    /\ capturedAt' = capturedAt
    /\ UNCHANGED partVars

\* mousedown on the handle of node idx without a modifier, mirror mode off:
\* selectedIds.clear() and .add(id) act on the Set object, then history.begin
RefMouseDownVertex(idx) ==
    /\ idx \in 0 .. (Len(points) - 1)
    /\ RefEvent("mousedownVertex")
    /\ LET G == RefCur
           id == heap[points[idx + 1]].id
           G1 == IF id \in heap[selectedIds] THEN G
                 ELSE [G EXCEPT !.heap[selectedIds] = {id}]
       IN  RefBecomes(beginRefs(G1, "Move Vertices"))
    /\ dragging' = TRUE
    /\ dragMode' = "move"
    /\ moveHistoryActive' = TRUE
    /\ moveApplied' = FALSE
    /\ activeDragCanonical' = idx
    /\ activeDragIsMirror' = FALSE

\* mousemove of a move drag, weights and mirror off: points[i].x += dx and
\* points[i].y += dy on the node objects of the selected ids
RefMouseMove(d) ==
    /\ dragging
    /\ dragMode = "move"
    /\ RefEvent("mousemove")
    /\ LET selected == {points[k] : k \in {j \in 1 .. Len(points) :
                                             heap[points[j]].id \in heap[selectedIds]}}
       IN  RefBecomes([RefCur EXCEPT !.heap =
               [a \in DOMAIN heap |->
                   IF a \in selected
                   THEN [heap[a] EXCEPT !.x = @ + d[1], !.y = @ + d[2]]
                   ELSE heap[a]]])
    /\ moveApplied' = (moveApplied \/ ~WithinEps(d[1]) \/ ~WithinEps(d[2]))
    /\ UNCHANGED <<dragging, dragMode, moveHistoryActive, activeDragCanonical,
                   activeDragIsMirror>>

RefMouseUp ==
    /\ dragging \/ moveHistoryActive
    /\ RefEvent("mouseup")
    /\ IF moveHistoryActive
       THEN /\ RefBecomes(IF moveApplied THEN commitRefs(RefCur) ELSE cancelRefs(RefCur))
            /\ moveHistoryActive' = FALSE
            /\ moveApplied' = FALSE
       ELSE /\ RefBecomes(RefCur)
            /\ UNCHANGED <<moveHistoryActive, moveApplied>>
    /\ dragging' = FALSE
    /\ dragMode' = "null"
    /\ activeDragCanonical' = NotFound
    /\ activeDragIsMirror' = FALSE

\* wheel: zoom is reassigned, pan.x and pan.y are assigned on the pan object
RefWheel(target, offset) ==
    /\ RefEvent("wheel")
    /\ LET v == wheelZoom([zoom |-> zoom, pan |-> heap[pan]], target, offset)
       IN  RefBecomes([RefCur EXCEPT !.heap[pan] = v.pan, !.zoom = v.zoom])
    /\ UNCHANGED dragVars

\* centerBtn: history.record, then pan.x = 0; pan.y = 0 on the pan object
RefCenterBtn ==
    /\ RefEvent("center")
    /\ LET G == recordRefs(RefCur, "Center View")
       IN  RefBecomes([G EXCEPT !.heap[pan] = <<0, 0>>, !.zoom = ZoomDen])
    /\ UNCHANGED dragVars

RefKeyUndo ==
    /\ RefEvent("undo")
    /\ ResetDragState
    /\ RefBecomes(undoRefs(RefCur))

RefKeyRedo ==
    /\ RefEvent("redo")
    /\ ResetDragState
    /\ RefBecomes(redoRefs(RefCur))

NextRefs ==
    \/ \E idx \in 0 .. 2 : RefMouseDownVertex(idx)
    \/ \E d \in RefDeltas : RefMouseMove(d)
    \/ RefMouseUp
    \/ \E target \in RefWheelTargets, offset \in WheelOffsets : RefWheel(target, offset)
    \/ RefCenterBtn
    \/ RefKeyUndo
    \/ RefKeyRedo

SpecRefs == InitRefs /\ [][NextRefs]_vars

----------------------------------------------------------------------------
\* Box selection: the left button goes down off every handle, the mouse moves
\* and the button is released, between clicks on handles and mirror toggles

BoxSides == {4, 5, 6}
BoxOffsets == {-6160, 0, 6160}           \* 11 px either side of the canvas centre
BoxPoints == {<<CanvasHalf + a, CanvasHalf + b>> : a, b \in BoxOffsets}

\* The page as loaded in state E: no gesture, nothing on the heap
StartsAs(E) ==
    /\ points = E.points
    /\ nodeIdCounter = E.nodeIdCounter
    /\ idToIndex = E.idToIndex
    /\ selectedIds = E.selectedIds
    /\ pan = E.pan
    /\ zoom = E.zoom
    /\ mirrorEnabled = E.mirrorEnabled
    /\ weightEnabled = E.weightEnabled
    /\ perHopFalloff = E.perHopFalloff
    /\ maxHops = E.maxHops
    /\ suppressHistory = E.suppressHistory
    /\ past = E.past
    /\ future = E.future
    /\ checkpoint = E.checkpoint
    /\ issuedIds = E.issuedIds
    /\ dragging = FALSE
    /\ dragMode = "null"
    /\ moveHistoryActive = FALSE
    /\ moveApplied = FALSE
    /\ activeDragCanonical = NotFound
    /\ activeDragIsMirror = FALSE
    /\ lastOp = "init"
    /\ steps = 0
    /\ heap = <<>>

InitBox ==
    /\ \E n \in BoxSides : StartsAs(Loaded(n))
    /\ InitExt
    /\ InitCaptured
    /\ InitParts

BoxEvent(name) ==
    /\ steps < MaxSteps /\ steps' = steps + 1 /\ lastOp' = name /\ heap' = heap
    /\ UNCHANGED <<frames, currentFrameIndex, activeLayerId, uid, toolVars>>

\* mousedown with the left button at pt, off every handle and without shift;
\* additive = metaKey || ctrlKey
BoxMouseDown(pt, additive) ==
    /\ OffEveryHandle(Cur, pt)
    /\ BoxEvent("mousedownBox")
    /\ dragging' = TRUE
    /\ dragMode' = "box"
    /\ box' = [start |-> pt, end |-> pt, additive |-> additive]
    /\ UNCHANGED <<moveHistoryActive, moveApplied, activeDragCanonical,
                   activeDragIsMirror>>
    /\ Becomes(Cur)

\* mousemove to pt during a box drag
BoxMouseMove(pt) ==
    /\ dragging
    /\ dragMode = "box"
    /\ BoxEvent("mousemoveBox")
    /\ box' = [box EXCEPT !.end = pt]
    /\ Becomes(selectInScreenRect(Cur,
                   [x1 |-> box.start[1], y1 |-> box.start[2],
                    x2 |-> pt[1], y2 |-> pt[2]],
                   IF box.additive THEN "add" ELSE "replace"))
    /\ UNCHANGED dragVars

\* mouseup: as MouseUp, and boxStart = boxEnd = null
BoxMouseUp ==
    /\ dragging \/ moveHistoryActive
    /\ BoxEvent("mouseup")
    /\ IF moveHistoryActive
       THEN /\ Becomes(IF moveApplied THEN historyCommit(Cur) ELSE historyCancel(Cur))
            /\ moveHistoryActive' = FALSE
            /\ moveApplied' = FALSE
       ELSE /\ Becomes(Cur)
            /\ UNCHANGED <<moveHistoryActive, moveApplied>>
    /\ dragging' = FALSE
    /\ dragMode' = "null"
    /\ activeDragCanonical' = NotFound
    /\ activeDragIsMirror' = FALSE
    /\ box' = [box EXCEPT !.start = <<>>, !.end = <<>>]

NextBox ==
    \/ \E pt \in BoxPoints, additive \in BOOLEAN : BoxMouseDown(pt, additive)
    \/ \E pt \in BoxPoints : BoxMouseMove(pt)
    \/ BoxMouseUp
    \/ \E idx \in Indices(Cur) : MouseDownVertex(idx, FALSE)
    \/ MirrorChk

SpecBox == InitBox /\ [][NextBox]_vars

----------------------------------------------------------------------------
\* Editing with the mirror ticked: a regular polygon whose pairs the mirror
\* checkbox has linked and reconciled, weighting on or off, then mirror
\* toggles, drags, inserts, deletes, undo and redo

PairSides == {6}
PairHops == {1, 3}                      \* maxHops
PairDeltas == {<<-64, 0>>, <<0, 64>>}    \* 8 world units to the left; 8 down

InitPairs ==
    /\ \E n \in PairSides, w \in BOOLEAN, h \in PairHops :
          StartsAs(toggleMirror([Loaded(n) EXCEPT !.weightEnabled = w,
                                                  !.maxHops = h]))
    /\ InitExt
    /\ InitCaptured
    /\ InitParts

NextPairs ==
    \/ MirrorChk
    \/ \E idx \in Indices(Cur), mod \in BOOLEAN : MouseDownVertex(idx, mod)
    \/ \E target \in InsertTargets(Cur) : MouseDownInsert(target)
    \/ \E d \in PairDeltas : MouseMove(d)
    \/ MouseUp
    \/ KeyDelete
    \/ KeyUndo
    \/ KeyRedo

SpecPairs == InitPairs /\ [][NextPairs]_vars

----------------------------------------------------------------------------
\* Frames (FrameManager).  A frame is [id, layers], a layer [obj, id, name,
\* visible, locked, shapes], a shape [obj, id, type, closed, vertices], a
\* vertex [obj, x, y].  obj names the JavaScript object: two records with the
\* same obj are one object reached twice, and an assignment to a property of
\* an object changes every record with its obj.  A new object's obj is the
\* number of the frame it was created for followed by its position in it.
\* Coordinates and interpolation factors are rationals <<n, d>>, d > 0, in
\* lowest terms.

RECURSIVE GCD(_, _)
GCD(a, b) == IF b = 0 THEN a ELSE GCD(b, a % b)

Rat(n, d) ==
    LET sn == IF d < 0 THEN -n ELSE n
        sd == Abs(d)
        g == GCD(Abs(sn), sd)
    IN  <<sn \div g, sd \div g>>

RatInt(n) == <<n, 1>>
RatAdd(a, b) == Rat(a[1] * b[2] + b[1] * a[2], a[2] * b[2])
RatSub(a, b) == Rat(a[1] * b[2] - b[1] * a[2], a[2] * b[2])
RatMul(a, b) == Rat(a[1] * b[1], a[2] * b[2])
RatFloor(a) == a[1] \div a[2]
RatLess(a, b) == a[1] * b[2] < b[1] * a[2]

\* interpolation that starts from b
LerpReversed(a, b, t) == RatAdd(b, RatMul(RatSub(a, b), t))

\* a + (b - a) * t
Lerp(a, b, t) == RatAdd(a, RatMul(RatSub(b, a), t))

\* FrameManager.easing[easingType] || FrameManager.easing.linear, at t
easingFn(easingType, t) ==
    CASE easingType = "easeInQuad" -> RatMul(t, t)
      [] easingType = "easeOutQuad" -> RatMul(t, RatSub(RatInt(2), t))
      [] OTHER -> t

\* resampleVertices(vertices, targetCount), vertices non-empty
resampleVertices(vertices, targetCount) ==
    IF Len(vertices) = targetCount THEN vertices
    ELSE [i \in 1 .. targetCount |->
            LET index == Rat((i - 1) * Len(vertices), targetCount)
                lowerIndex == RatFloor(index) % Len(vertices)
                upperIndex == (lowerIndex + 1) % Len(vertices)
                fraction == RatSub(index, RatInt(RatFloor(index)))
                lo == vertices[lowerIndex + 1]
                up == vertices[upperIndex + 1]
            IN  [obj |-> <<"resampled", i>>,
                 x |-> Lerp(lo.x, up.x, fraction),
                 y |-> Lerp(lo.y, up.y, fraction)]]

\* interpolateShape(startShape, endShape, t); tag is the new shape object
interpolateShape(startShape, endShape, t, tag) ==
    LET startVerts == startShape.vertices
        endVerts == endShape.vertices
        targetCount == Max2(Len(startVerts), Len(endVerts))
        rs == IF Len(startVerts) = Len(endVerts) THEN startVerts
              ELSE resampleVertices(startVerts, targetCount)
        re == IF Len(startVerts) = Len(endVerts) THEN endVerts
              ELSE resampleVertices(endVerts, targetCount)
    IN  [obj |-> tag, id |-> tag, type |-> startShape.type,
         vertices |-> [i \in 1 .. targetCount |->
                         [obj |-> Append(tag, i),
                          x |-> Lerp(rs[i].x, re[i].x, t),
                          y |-> Lerp(rs[i].y, re[i].y, t)]],
         closed |-> startShape.closed]

RECURSIVE SumOf(_, _, _)
SumOf(vertices, axis, k) ==
    IF k = 0 THEN RatInt(0)
    ELSE RatAdd(SumOf(vertices, axis, k - 1),
                IF axis = "x" THEN vertices[k].x ELSE vertices[k].y)

\* interpolateShapeToNothing(shape, scale): scaled about the mean of its vertices
interpolateShapeToNothing(shape, scale, tag) ==
    LET n == Len(shape.vertices)
        cx == RatMul(SumOf(shape.vertices, "x", n), Rat(1, n))
        cy == RatMul(SumOf(shape.vertices, "y", n), Rat(1, n))
    IN  [obj |-> tag, id |-> tag, type |-> shape.type,
         vertices |-> [i \in 1 .. n |->
                         [obj |-> Append(tag, i),
                          x |-> RatAdd(cx, RatMul(RatSub(shape.vertices[i].x, cx), scale)),
                          y |-> RatAdd(cy, RatMul(RatSub(shape.vertices[i].y, cy), scale))]],
         closed |-> shape.closed]

\* createInterpolatedFrame(startFrame, endFrame, t) for frames with as many
\* layers in endFrame as in startFrame; u is the new frame's id
createInterpolatedFrame(startFrame, endFrame, t, u) ==
    [id |-> u,
     layers |->
       [l \in 1 .. Len(startFrame.layers) |->
          LET startLayer == startFrame.layers[l]
              endLayer == endFrame.layers[l]
              maxShapes == Max2(Len(startLayer.shapes), Len(endLayer.shapes))
          IN  [obj |-> <<u, l>>, id |-> <<u, l>>,
               name |-> startLayer.name,
               visible |-> startLayer.visible,
               locked |-> startLayer.locked,
               shapes |->
                 [k \in 1 .. maxShapes |->
                    IF k <= Len(startLayer.shapes) /\ k <= Len(endLayer.shapes)
                    THEN interpolateShape(startLayer.shapes[k], endLayer.shapes[k],
                                          t, <<u, l, k>>)
                    ELSE IF k <= Len(startLayer.shapes)
                    THEN interpolateShapeToNothing(startLayer.shapes[k],
                                                   RatSub(RatInt(1), t), <<u, l, k>>)
                    ELSE interpolateShapeToNothing(endLayer.shapes[k], t, <<u, l, k>>)]]]]

\* The frame state the operations below take and return
FCur ==
    [frames |-> frames, currentFrameIndex |-> currentFrameIndex,
     activeLayerId |-> activeLayerId, uid |-> uid]

FBecomes(F) ==
    /\ frames' = F.frames
    /\ currentFrameIndex' = F.currentFrameIndex
    /\ activeLayerId' = F.activeLayerId
    /\ uid' = F.uid

\* frames.splice(index, 0, ...newFrames)
SpliceFrames(fs, index, newFrames) ==
    SubSeq(fs, 1, index) \o newFrames \o SubSeq(fs, index + 1, Len(fs))

\* createEmptyFrame() with id u
createEmptyFrame(u) ==
    [id |-> u,
     layers |-> << [obj |-> <<u, 1>>, id |-> <<u, 1>>, name |-> "Layer 1",
                    visible |-> TRUE, locked |-> FALSE, shapes |-> <<>>] >>]

addFrame(F) ==
    LET frame == createEmptyFrame(F.uid + 1)
    IN  [F EXCEPT !.frames = Append(@, frame),
                  !.currentFrameIndex = Len(F.frames),
                  !.activeLayerId = frame.layers[1].id,
                  !.uid = @ + 1]

\* JSON.parse(JSON.stringify(shapes)): new objects with the same properties
copyShapes(shapes, tag) ==
    [k \in 1 .. Len(shapes) |->
        [shapes[k] EXCEPT
           !.obj = Append(tag, k),
           !.vertices = [i \in 1 .. Len(shapes[k].vertices) |->
                            [shapes[k].vertices[i] EXCEPT !.obj = tag \o <<k, i>>]]]]

\* duplicateFrame whose new layers hold the current frame's shapes arrays
duplicateFrameShallow(F) ==
    IF Len(F.frames) = 0 THEN addFrame(F)
    ELSE LET u == F.uid + 1
             currentFrame == F.frames[F.currentFrameIndex + 1]
             newFrame ==
               [id |-> u,
                layers |-> [l \in 1 .. Len(currentFrame.layers) |->
                   [currentFrame.layers[l] EXCEPT !.obj = <<u, l>>, !.id = <<u, l>>]]]
         IN  [F EXCEPT !.frames = SpliceFrames(@, F.currentFrameIndex + 1, <<newFrame>>),
                       !.currentFrameIndex = @ + 1,
                       !.activeLayerId = newFrame.layers[1].id,
                       !.uid = u]

duplicateFrame(F) ==
    IF Len(F.frames) = 0 THEN addFrame(F)
    ELSE LET u == F.uid + 1
             currentFrame == F.frames[F.currentFrameIndex + 1]
             newFrame ==
               [id |-> u,
                layers |-> [l \in 1 .. Len(currentFrame.layers) |->
                   [currentFrame.layers[l] EXCEPT
                      !.obj = <<u, l>>, !.id = <<u, l>>,
                      !.shapes = copyShapes(@, <<u, l>>)]]]
         IN  [F EXCEPT !.frames = SpliceFrames(@, F.currentFrameIndex + 1, <<newFrame>>),
                       !.currentFrameIndex = @ + 1,
                       !.activeLayerId = newFrame.layers[1].id,
                       !.uid = u]

\* frame.layers[0]?.id
FirstLayerId(frame) == IF Len(frame.layers) > 0 THEN frame.layers[1].id ELSE <<>>

\* deleteFrame that leaves currentFrameIndex where it was
deleteFrameUnclamped(F) ==
    IF Len(F.frames) <= 1 THEN F
    ELSE LET fs == SubSeq(F.frames, 1, F.currentFrameIndex)
                   \o SubSeq(F.frames, F.currentFrameIndex + 2, Len(F.frames))
             shown == IF F.currentFrameIndex >= Len(fs) THEN Len(fs) - 1
                      ELSE F.currentFrameIndex
         IN  [F EXCEPT !.frames = fs,
                       !.activeLayerId = FirstLayerId(fs[shown + 1])]

deleteFrame(F) ==
    IF Len(F.frames) <= 1 THEN F
    ELSE LET fs == SubSeq(F.frames, 1, F.currentFrameIndex)
                   \o SubSeq(F.frames, F.currentFrameIndex + 2, Len(F.frames))
             idx == IF F.currentFrameIndex >= Len(fs) THEN Len(fs) - 1
                    ELSE F.currentFrameIndex
         IN  [F EXCEPT !.frames = fs,
                       !.currentFrameIndex = idx,
                       !.activeLayerId = FirstLayerId(fs[idx + 1])]

goToFrame(F, index) ==
    IF index < 0 \/ index >= Len(F.frames) THEN F
    ELSE LET frame == F.frames[index + 1]
             layerExists == \E l \in 1 .. Len(frame.layers) :
                               frame.layers[l].id = F.activeLayerId
         IN  [F EXCEPT !.currentFrameIndex = index,
                       !.activeLayerId = IF layerExists THEN @ ELSE FirstLayerId(frame)]

\* nextFrame(loop = true)
nextFrame(F, loop) ==
    IF F.currentFrameIndex < Len(F.frames) - 1 THEN goToFrame(F, F.currentFrameIndex + 1)
    ELSE IF loop THEN goToFrame(F, 0)
    ELSE F

previousFrame(F) ==
    IF F.currentFrameIndex > 0 THEN goToFrame(F, F.currentFrameIndex - 1) ELSE F

\* interpolateBetweenFrames that pairs the layers both frames have
interpolateBetweenFramesGuessing(F, startFrame, endFrame, numFrames, easingType, insertIndex) ==
    LET n == Min2(Len(startFrame.layers), Len(endFrame.layers))
        cut == [startFrame EXCEPT !.layers = SubSeq(@, 1, n)]
        newFrames ==
           [i \in 1 .. numFrames |->
               createInterpolatedFrame(cut, endFrame,
                   easingFn(easingType, Rat(i, numFrames + 1)), F.uid + i)]
    IN  [f |-> [F EXCEPT !.frames = SpliceFrames(@, insertIndex, newFrames),
                         !.uid = @ + numFrames],
         ret |-> TRUE]

\* interpolateBetweenFrames pushing the in-between frames last to first
interpolateBetweenFramesBackwards(F, startFrame, endFrame, numFrames, easingType, insertIndex) ==
    IF Len(startFrame.layers) # Len(endFrame.layers)
    THEN [f |-> F, ret |-> FALSE]
    ELSE LET newFrames ==
               [i \in 1 .. numFrames |->
                   createInterpolatedFrame(startFrame, endFrame,
                       easingFn(easingType, Rat(numFrames + 1 - i, numFrames + 1)),
                       F.uid + i)]
         IN  [f |-> [F EXCEPT !.frames = SpliceFrames(@, insertIndex, newFrames),
                              !.uid = @ + numFrames],
              ret |-> TRUE]

\* interpolateBetweenFrames: [f: the frame state after the call, ret: its result]
interpolateBetweenFrames(F, startFrame, endFrame, numFrames, easingType, insertIndex) ==
    IF Len(startFrame.layers) # Len(endFrame.layers)
    THEN [f |-> F, ret |-> FALSE]
    ELSE LET newFrames ==
               [i \in 1 .. numFrames |->
                   createInterpolatedFrame(startFrame, endFrame,
                       easingFn(easingType, Rat(i, numFrames + 1)), F.uid + i)]
         IN  [f |-> [F EXCEPT !.frames = SpliceFrames(@, insertIndex, newFrames),
                              !.uid = @ + numFrames],
              ret |-> TRUE]

interpolateToNextFrame(F, numFrames, easingType) ==
    LET currentIndex == F.currentFrameIndex
        nextIndex == currentIndex + 1
    IN  IF nextIndex >= Len(F.frames) THEN [f |-> F, ret |-> FALSE]
        ELSE interpolateBetweenFrames(F, F.frames[currentIndex + 1],
                                      F.frames[nextIndex + 1], numFrames,
                                      easingType, currentIndex + 1)

\* LayerManager.getActiveLayer(): the position in the current frame's layers
activeLayerIndex(F) ==
    LET layers == F.frames[F.currentFrameIndex + 1].layers
        hits == {l \in 1 .. Len(layers) : layers[l].id = F.activeLayerId}
    IN  IF hits # {} THEN CHOOSE l \in hits : \A m \in hits : l <= m ELSE 1

\* v.x = x; v.y = y on the vertex object obj, wherever it is reached from
AssignVertex(fs, obj, x, y) ==
    [f \in 1 .. Len(fs) |->
       [fs[f] EXCEPT !.layers =
          [l \in 1 .. Len(fs[f].layers) |->
             [fs[f].layers[l] EXCEPT !.shapes =
                [k \in 1 .. Len(fs[f].layers[l].shapes) |->
                   [fs[f].layers[l].shapes[k] EXCEPT !.vertices =
                      [i \in 1 .. Len(fs[f].layers[l].shapes[k].vertices) |->
                         LET v == fs[f].layers[l].shapes[k].vertices[i]
                         IN  IF v.obj = obj THEN [v EXCEPT !.x = x, !.y = y]
                             ELSE v]]]]]]]

\* ShapeFactory.moveVertex(shapeId, vertexIndex, newPos) on the active layer
moveVertex(F, shapeId, vertexIndex, newPos) ==
    IF Len(F.frames) = 0 \/ Len(F.frames[F.currentFrameIndex + 1].layers) = 0 THEN F
    ELSE LET shapes == F.frames[F.currentFrameIndex + 1].layers[activeLayerIndex(F)].shapes
             hits == {k \in 1 .. Len(shapes) : shapes[k].id = shapeId}
         IN  IF hits = {} THEN F
             ELSE LET shape == shapes[CHOOSE k \in hits : \A m \in hits : k <= m]
                  IN  IF vertexIndex < 0 \/ vertexIndex >= Len(shape.vertices) THEN F
                      ELSE [F EXCEPT !.frames =
                              AssignVertex(@, shape.vertices[vertexIndex + 1].obj,
                                           newPos[1], newPos[2])]

\* Documents: two keyframes as drawing, duplicating and loading leave them

MkShape(tag, id, type, closed, pts) ==
    [obj |-> tag, id |-> id, type |-> type,
     vertices |-> [i \in 1 .. Len(pts) |->
                     [obj |-> Append(tag, i), x |-> RatInt(pts[i][1]),
                      y |-> RatInt(pts[i][2])]],
     closed |-> closed]

MkLayer(tag, name, visible, locked, shapes) ==
    [obj |-> tag, id |-> tag, name |-> name, visible |-> visible,
     locked |-> locked, shapes |-> shapes]

Tri == << <<0, 0>>, <<6, 0>>, <<0, 6>> >>
TriMoved == << <<12, 0>>, <<18, 0>>, <<12, 12>> >>
Quad == << <<0, 0>>, <<8, 0>>, <<8, 8>>, <<0, 8>> >>
Stroke == << <<0, 0>>, <<4, 4>> >>

KeyA == [id |-> 1, layers |-> << MkLayer(<<1, 1>>, "Layer 1", TRUE, FALSE,
            << MkShape(<<1, 1, 1>>, <<1, 1, 1>>, "polygon", TRUE, Tri) >>) >>]

\* frame 2 as a copy of frame 1 with one difference each
Documents ==
    { \* the same structure, vertices moved
      << KeyA, [id |-> 2, layers |-> << MkLayer(<<2, 1>>, "Layer 1", TRUE, FALSE,
            << MkShape(<<2, 1, 1>>, <<1, 1, 1>>, "polygon", TRUE, TriMoved) >>) >>] >>,
      \* a vertex more
      << KeyA, [id |-> 2, layers |-> << MkLayer(<<2, 1>>, "Layer 1", TRUE, FALSE,
            << MkShape(<<2, 1, 1>>, <<1, 1, 1>>, "polygon", TRUE, Quad) >>) >>] >>,
      \* two shapes more, one of them a two-point stroke
      << KeyA, [id |-> 2, layers |-> << MkLayer(<<2, 1>>, "Layer 1", TRUE, FALSE,
            << MkShape(<<2, 1, 1>>, <<1, 1, 1>>, "polygon", TRUE, Tri),
               MkShape(<<2, 1, 2>>, <<2, 1, 2>>, "path", FALSE, Stroke),
               MkShape(<<2, 1, 3>>, <<2, 1, 3>>, "polygon", TRUE, Quad) >>) >>] >>,
      \* the layer renamed and locked
      << KeyA, [id |-> 2, layers |-> << MkLayer(<<2, 1>>, "Ink", TRUE, TRUE,
            << MkShape(<<2, 1, 1>>, <<1, 1, 1>>, "polygon", TRUE, TriMoved) >>) >>] >>,
      \* another kind of shape in the slot
      << KeyA, [id |-> 2, layers |-> << MkLayer(<<2, 1>>, "Layer 1", TRUE, FALSE,
            << MkShape(<<2, 1, 1>>, <<2, 1, 1>>, "path", FALSE, TriMoved) >>) >>] >>,
      \* a hidden layer more
      << KeyA, [id |-> 2, layers |-> << MkLayer(<<2, 1>>, "Layer 1", TRUE, FALSE,
            << MkShape(<<2, 1, 1>>, <<1, 1, 1>>, "polygon", TRUE, Tri) >>),
            MkLayer(<<2, 2>>, "Layer 2", FALSE, FALSE,
            << MkShape(<<2, 2, 1>>, <<2, 2, 1>>, "polygon", TRUE, Quad) >>) >>] >> }

MaxFrameSteps == 3       \* frame operations per explored session

FrameCounts == {1, 2}                    \* numFrames
Easings == {"linear", "easeInQuad"}
FrameIndexes == {-1, 0, 1, 2}            \* goToFrame's index
VertexIndexes == {0, 3}
NewPositions == {<<RatInt(20), RatInt(20)>>}

InitFrames ==
    /\ StartsAs(Loaded(3))
    /\ box = NoBox
    /\ \E doc \in Documents, reversed \in BOOLEAN, idx \in {0, 1} :
         /\ frames = IF reversed THEN <<doc[2], doc[1]>> ELSE doc
         /\ currentFrameIndex = idx
         /\ activeLayerId = FirstLayerId(frames[idx + 1])
    /\ uid = 2
    /\ InitTool
    /\ InitCaptured
    /\ InitParts

\* the polygon editor of index.js, which these operations leave alone
editorVars == <<points, nodeIdCounter, idToIndex, selectedIds, pan, zoom,
                mirrorEnabled, weightEnabled, perHopFalloff, maxHops,
                suppressHistory, past, future, checkpoint, issuedIds,
                dragging, dragMode, moveHistoryActive, moveApplied,
                activeDragCanonical, activeDragIsMirror, heap, box, capturedAt>>

FrameEvent(name) ==
    /\ steps < MaxFrameSteps /\ steps' = steps + 1 /\ lastOp' = name
    /\ UNCHANGED editorVars
    /\ UNCHANGED toolVars
    /\ UNCHANGED partVars

AddFrame == FrameEvent("addFrame") /\ FBecomes(addFrame(FCur))

DuplicateFrame == FrameEvent("duplicateFrame") /\ FBecomes(duplicateFrame(FCur))

DeleteFrame == FrameEvent("deleteFrame") /\ FBecomes(deleteFrame(FCur))

GoToFrame(index) == FrameEvent("goToFrame") /\ FBecomes(goToFrame(FCur, index))

NextFrame(loop) == FrameEvent("nextFrame") /\ FBecomes(nextFrame(FCur, loop))

PreviousFrame == FrameEvent("previousFrame") /\ FBecomes(previousFrame(FCur))

\* lastOp records the call's result
InterpolateToNextFrame(numFrames, easingType) ==
    LET r == interpolateToNextFrame(FCur, numFrames, easingType)
    IN  /\ FrameEvent(IF r.ret THEN "interpolated" ELSE "interpolationRefused")
        /\ FBecomes(r.f)

\* the ids moveVertex can be called with: the shapes of the frame shown, and none
ShapeIdsShown ==
    LET layers == frames[currentFrameIndex + 1].layers
    IN  UNION {{layers[l].shapes[k].id : k \in 1 .. Len(layers[l].shapes)} :
                  l \in 1 .. Len(layers)} \cup {<<0>>}

MoveVertex(shapeId, vertexIndex, newPos) ==
    /\ FrameEvent("moveVertex")
    /\ FBecomes(moveVertex(FCur, shapeId, vertexIndex, newPos))

NextFrames ==
    \/ AddFrame
    \/ DuplicateFrame
    \/ DeleteFrame
    \/ \E index \in FrameIndexes : GoToFrame(index)
    \/ \E loop \in BOOLEAN : NextFrame(loop)
    \/ PreviousFrame
    \/ \E numFrames \in FrameCounts, easingType \in Easings :
          InterpolateToNextFrame(numFrames, easingType)
    \/ \E shapeId \in ShapeIdsShown, vertexIndex \in VertexIndexes,
          newPos \in NewPositions : MoveVertex(shapeId, vertexIndex, newPos)

SpecFrames == InitFrames /\ [][NextFrames]_vars

----------------------------------------------------------------------------
\* Layers (LayerManager)

LayerNames == <<"Layer 1", "Layer 2", "Layer 3", "Layer 4", "Layer 5", "Layer 6">>

\* the position in layers of the layer whose id is given, 0 for none (findIndex)
LayerIndexOf(layers, id) ==
    LET hits == {l \in 1 .. Len(layers) : layers[l].id = id}
    IN  IF hits = {} THEN 0 ELSE CHOOSE l \in hits : \A m \in hits : l <= m

\* addLayer(name = null)
addLayer(F) ==
    IF Len(F.frames) = 0 THEN F
    ELSE LET u == F.uid + 1
             f == F.currentFrameIndex + 1
             layer == [obj |-> <<u, 1>>, id |-> <<u, 1>>,
                       name |-> LayerNames[Len(F.frames[f].layers) + 1],
                       visible |-> TRUE, locked |-> FALSE, shapes |-> <<>>]
         IN  [F EXCEPT !.frames[f].layers = Append(@, layer),
                       !.activeLayerId = layer.id,
                       !.uid = u]

\* deleteActiveLayer that keeps activeLayerId
deleteActiveLayerKeepingId(F) ==
    IF Len(F.frames) = 0 THEN F
    ELSE LET f == F.currentFrameIndex + 1
             layers == F.frames[f].layers
             index == LayerIndexOf(layers, F.activeLayerId)
         IN  IF Len(layers) <= 1 \/ index = 0 THEN F
             ELSE [F EXCEPT !.frames[f].layers =
                      SubSeq(layers, 1, index - 1) \o SubSeq(layers, index + 1, Len(layers))]

deleteActiveLayer(F) ==
    IF Len(F.frames) = 0 THEN F
    ELSE LET f == F.currentFrameIndex + 1
             layers == F.frames[f].layers
             index == LayerIndexOf(layers, F.activeLayerId)
             left == SubSeq(layers, 1, index - 1) \o SubSeq(layers, index + 1, Len(layers))
             newIndex == Min2(index, Len(left))
         IN  IF Len(layers) <= 1 \/ index = 0 THEN F
             ELSE [F EXCEPT !.frames[f].layers = left,
                            !.activeLayerId = left[newIndex].id]

\* the shapes of all layers in order
RECURSIVE allShapesOf(_, _)
allShapesOf(layers, l) ==
    IF l > Len(layers) THEN <<>>
    ELSE layers[l].shapes \o allShapesOf(layers, l + 1)

\* mergeLayers().  app.history.record is no method of the HistoryManager class:
\* recorded tells whether the application's history object served the call or
\* the call threw, which leaves the layers as they were
mergeLayers(F, recorded) ==
    IF Len(F.frames) = 0 THEN F
    ELSE LET u == F.uid + 1
             f == F.currentFrameIndex + 1
             layers == F.frames[f].layers
         IN  IF Len(layers) <= 1 \/ ~recorded THEN F
             ELSE [F EXCEPT !.frames[f].layers =
                               << [obj |-> <<u, 1>>, id |-> layers[1].id,
                                   name |-> "Merged Layer", visible |-> TRUE,
                                   locked |-> FALSE,
                                   shapes |-> allShapesOf(layers, 1)] >>,
                            !.activeLayerId = layers[1].id,
                            !.uid = u]

\* moveLayer(layerId, direction), recorded as in mergeLayers
moveLayer(F, layerId, direction, recorded) ==
    IF Len(F.frames) = 0 THEN F
    ELSE LET f == F.currentFrameIndex + 1
             layers == F.frames[f].layers
             index == LayerIndexOf(layers, layerId)
             newIndex == index + direction
             left == SubSeq(layers, 1, index - 1) \o SubSeq(layers, index + 1, Len(layers))
         IN  IF index = 0 \/ newIndex < 1 \/ newIndex > Len(layers) \/ ~recorded THEN F
             ELSE [F EXCEPT !.frames[f].layers =
                      SubSeq(left, 1, newIndex - 1) \o <<layers[index]>>
                         \o SubSeq(left, newIndex, Len(left))]

LayerDirections == {-1, 1}

\* the ids moveLayer can be called with: the layers of the frame shown, and none
LayerIdsShown ==
    {frames[currentFrameIndex + 1].layers[l].id :
        l \in 1 .. Len(frames[currentFrameIndex + 1].layers)} \cup {<<0>>}

AddLayer == FrameEvent("addLayer") /\ FBecomes(addLayer(FCur))

DeleteActiveLayer == FrameEvent("deleteActiveLayer") /\ FBecomes(deleteActiveLayer(FCur))

MergeLayers(recorded) ==
    FrameEvent("mergeLayers") /\ FBecomes(mergeLayers(FCur, recorded))

MoveLayer(layerId, direction, recorded) ==
    FrameEvent("moveLayer") /\ FBecomes(moveLayer(FCur, layerId, direction, recorded))

NextLayers ==
    \/ AddFrame
    \/ DuplicateFrame
    \/ DeleteFrame
    \/ \E index \in FrameIndexes : GoToFrame(index)
    \/ AddLayer
    \/ DeleteActiveLayer
    \/ \E recorded \in BOOLEAN : MergeLayers(recorded)
    \/ \E layerId \in LayerIdsShown, direction \in LayerDirections, recorded \in BOOLEAN :
          MoveLayer(layerId, direction, recorded)

SpecLayers == InitFrames /\ [][NextLayers]_vars

----------------------------------------------------------------------------
\* Export

\* trianglesFan()
trianglesFan(E) == [i \in 1 .. (Len(E.points) - 2) |-> <<0, i, i + 1>>]

\* round(value): Math.round(value * 1000) / 1000
roundTo3(a) == Rat(RatFloor(RatAdd(RatMul(a, RatInt(1000)), Rat(1, 2))), 1000)

\* the shapes of the visible layers, in the order of the export's two loops
RECURSIVE shapesOfVisible(_, _)
shapesOfVisible(layers, l) ==
    IF l > Len(layers) THEN <<>>
    ELSE (IF layers[l].visible THEN layers[l].shapes ELSE <<>>)
         \o shapesOfVisible(layers, l + 1)

\* the fan of a shape of n vertices pushed at vertexOffset
fanAt(vertexOffset, n) ==
    [i \in 1 .. (n - 2) |-> <<vertexOffset, vertexOffset + i, vertexOffset + i + 1>>]

\* the export's loop body that never advances vertexOffset
RECURSIVE exportShapesUnshifted(_, _, _, _, _)
exportShapesUnshifted(shapes, k, allVertices, allTriangles, vertexOffset) ==
    IF k > Len(shapes) THEN [vertices |-> allVertices, triangles |-> allTriangles]
    ELSE LET n == Len(shapes[k].vertices)
         IN  IF n < 3
             THEN exportShapesUnshifted(shapes, k + 1, allVertices, allTriangles, vertexOffset)
             ELSE exportShapesUnshifted(shapes, k + 1,
                    allVertices \o [i \in 1 .. n |->
                                      <<roundTo3(shapes[k].vertices[i].x),
                                        roundTo3(shapes[k].vertices[i].y)>>],
                    allTriangles \o fanAt(vertexOffset, n),
                    vertexOffset)

RECURSIVE exportShapes(_, _, _, _, _)
exportShapes(shapes, k, allVertices, allTriangles, vertexOffset) ==
    IF k > Len(shapes) THEN [vertices |-> allVertices, triangles |-> allTriangles]
    ELSE LET n == Len(shapes[k].vertices)
         IN  IF n < 3
             THEN exportShapes(shapes, k + 1, allVertices, allTriangles, vertexOffset)
             ELSE exportShapes(shapes, k + 1,
                    allVertices \o [i \in 1 .. n |->
                                      <<roundTo3(shapes[k].vertices[i].x),
                                        roundTo3(shapes[k].vertices[i].y)>>],
                    allTriangles \o fanAt(vertexOffset, n),
                    vertexOffset + n)

\* ExportManager.getCurrentFrameData()
getCurrentFrameData(F) ==
    IF Len(F.frames) = 0 THEN [vertices |-> <<>>, triangles |-> <<>>]
    ELSE exportShapes(shapesOfVisible(F.frames[F.currentFrameIndex + 1].layers, 1),
                      1, <<>>, <<>>, 0)

----------------------------------------------------------------------------
\* Tools and history (ToolManager, ShapeFactory, HistoryManager)

\* the application state the tools act on
ACur ==
    [frames |-> frames, currentFrameIndex |-> currentFrameIndex,
     activeLayerId |-> activeLayerId, uid |-> uid,
     currentTool |-> currentTool, toolState |-> toolState,
     undoStack |-> undoStack, redoStack |-> redoStack]

ABecomes(A) ==
    /\ frames' = A.frames
    /\ currentFrameIndex' = A.currentFrameIndex
    /\ activeLayerId' = A.activeLayerId
    /\ uid' = A.uid
    /\ currentTool' = A.currentTool
    /\ toolState' = A.toolState
    /\ undoStack' = A.undoStack
    /\ redoStack' = A.redoStack

maxHistory == 100

ToolNames == {"select", "pen"}           \* the keys of this.tools that are used
PenThreshold == 15                       \* 15 / zoom at zoom 1

\* JSON.stringify: the properties without the identity of the objects
Stringify(fs) ==
    [f \in 1 .. Len(fs) |->
       [fs[f] EXCEPT !.layers =
          [l \in 1 .. Len(fs[f].layers) |->
             [fs[f].layers[l] EXCEPT
                !.obj = <<>>,
                !.shapes = copyShapes(fs[f].layers[l].shapes, <<>>)]]]]

\* JSON.parse: new objects throughout, tagged u
Parse(fs, u) ==
    [f \in 1 .. Len(fs) |->
       [fs[f] EXCEPT !.layers =
          [l \in 1 .. Len(fs[f].layers) |->
             [fs[f].layers[l] EXCEPT
                !.obj = <<u, f, l, 0, 0>>,
                !.shapes = copyShapes(fs[f].layers[l].shapes, <<u, f, l, 0, 0>>)]]]]

\* pushState that never evicts
pushStateUnbounded(A, state) ==
    [A EXCEPT !.undoStack = Append(@, state), !.redoStack = <<>>]

\* HistoryManager.pushState(state)
pushState(A, state) ==
    LET pushed == Append(A.undoStack, state)
    IN  [A EXCEPT !.undoStack = IF Len(pushed) > maxHistory THEN Tail(pushed)
                                ELSE pushed,
                  !.redoStack = <<>>]

\* app.saveHistory(): pushes the document as it is
saveHistory(A) ==
    pushState(A, [frames |-> Stringify(A.frames),
                  currentFrameIndex |-> A.currentFrameIndex])

\* app.restoreState(state): the document becomes the parsed state
restoreState(A, state) ==
    [A EXCEPT !.frames = Parse(state.frames, A.uid + 1),
              !.currentFrameIndex = state.currentFrameIndex,
              !.uid = @ + 1]

\* HistoryManager.canUndo()
canUndo(A) == Len(A.undoStack) > 1

\* undo that drops the state it pops
undoForgetting(A) ==
    IF Len(A.undoStack) <= 1 THEN A
    ELSE LET popped == SubSeq(A.undoStack, 1, Len(A.undoStack) - 1)
         IN  restoreState([A EXCEPT !.undoStack = popped], popped[Len(popped)])

\* HistoryManager.undo()
undo(A) ==
    IF Len(A.undoStack) <= 1 THEN A
    ELSE LET currentState == A.undoStack[Len(A.undoStack)]
             popped == SubSeq(A.undoStack, 1, Len(A.undoStack) - 1)
         IN  restoreState([A EXCEPT !.undoStack = popped,
                                    !.redoStack = Append(@, currentState)],
                          popped[Len(popped)])

\* HistoryManager.redo()
redo(A) ==
    IF Len(A.redoStack) = 0 THEN A
    ELSE LET stateToRestore == A.redoStack[Len(A.redoStack)]
         IN  restoreState(
                [A EXCEPT !.redoStack = SubSeq(@, 1, Len(A.redoStack) - 1),
                          !.undoStack = Append(@, stateToRestore)],
                stateToRestore)

\* ShapeFactory.createFromPath(points), addShape included
createFromPath(A, pts) ==
    IF Len(pts) < 3 \/ Len(A.frames) = 0 THEN A
    ELSE LET u == A.uid + 1
             shape == MkShape(<<u, 0, 0>>, <<u, 0, 0>>, "path", TRUE, pts)
             f == A.currentFrameIndex + 1
             l == activeLayerIndex(A)
         IN  [A EXCEPT !.frames[f].layers[l].shapes = Append(@, shape),
                       !.uid = u]

\* ToolManager.finishCurrentAction()
finishCurrentAction(A) ==
    LET path == A.toolState.currentPath
        A1 == [A EXCEPT !.toolState.pendingShape = FALSE]
        A2 == IF path.set /\ Len(path.pts) >= 3
              THEN saveHistory(createFromPath(A1, path.pts))
              ELSE A1
    IN  [A2 EXCEPT !.toolState.currentPath = NoPath]

\* ToolManager.setTool(toolName)
setTool(A, toolName) ==
    IF toolName \notin ToolNames THEN A
    ELSE [finishCurrentAction(A) EXCEPT
             !.currentTool = toolName,
             !.toolState = [currentPath |-> NoPath, pendingShape |-> FALSE]]

\* Math.hypot(pos - firstPoint) < threshold
NearFirst(path, pos) ==
    LET dx == pos[1] - path[1][1]
        dy == pos[2] - path[1][2]
    IN  dx * dx + dy * dy < PenThreshold * PenThreshold

\* ToolManager.penMouseDown(data)
penMouseDown(A, pos) ==
    LET path == A.toolState.currentPath.pts
    IN  IF Len(path) >= 3 /\ NearFirst(path, pos)
        THEN [saveHistory(createFromPath(A, path)) EXCEPT
                 !.toolState.currentPath = NoPath]
        ELSE [A EXCEPT !.toolState.currentPath =
                          [set |-> TRUE, pts |-> Append(path, pos)]]

\* ToolManager.penDoubleClick(data)
penDoubleClick(A) ==
    LET path == A.toolState.currentPath
        A1 == IF path.set /\ Len(path.pts) >= 3
              THEN saveHistory(createFromPath(A, path.pts))
              ELSE A
    IN  [A1 EXCEPT !.toolState.currentPath = NoPath]

MaxToolSteps == 5        \* tool and history events per explored session

PenPositions == {<<0, 0>>, <<40, 0>>, <<0, 40>>, <<3, 4>>}
ToolRequests == {"select", "pen", "lasso"}      \* "lasso" is no tool

\* the documents saved so far: two states kept, a third undone
SavedStates ==
    LET layerOf(shapes) == MkLayer(<<1, 1>>, "Layer 1", TRUE, FALSE, shapes)
        s0 == << [id |-> 1, layers |-> << layerOf(<<>>) >>] >>
        s1 == << KeyA >>
        s2 == << [id |-> 1, layers |-> << layerOf(
                   << MkShape(<<1, 1, 1>>, <<1, 1, 1>>, "polygon", TRUE, Tri),
                      MkShape(<<1, 1, 2>>, <<1, 1, 2>>, "polygon", TRUE, Quad) >>) >>] >>
    IN  [k \in 1 .. 3 |-> [frames |-> Stringify(<<s0, s1, s2>>[k]),
                           currentFrameIndex |-> 0]]

\* a fresh application, or one after three saves and one undo
InitTools ==
    /\ StartsAs(Loaded(3))
    /\ box = NoBox
    /\ currentFrameIndex = 0
    /\ activeLayerId = <<1, 1>>
    /\ uid = 2
    /\ currentTool \in ToolNames
    /\ toolState = [currentPath |-> NoPath, pendingShape |-> FALSE]
    /\ \/ /\ frames = << createEmptyFrame(1) >>
          /\ undoStack = <<>>
          /\ redoStack = <<>>
       \/ /\ frames = Parse(SavedStates[2].frames, 2)
          /\ undoStack = SubSeq(SavedStates, 1, 2)
          /\ redoStack = << SavedStates[3] >>
    /\ InitCaptured
    /\ InitParts

ToolEvent(name) ==
    /\ steps < MaxToolSteps /\ steps' = steps + 1 /\ lastOp' = name
    /\ UNCHANGED editorVars
    /\ UNCHANGED partVars

SetTool(toolName) == ToolEvent("setTool") /\ ABecomes(setTool(ACur, toolName))

\* handleMouseDown with the pen tool
PenMouseDown(pos) ==
    /\ currentTool = "pen"
    /\ ToolEvent("penMouseDown")
    /\ ABecomes(penMouseDown(ACur, pos))

\* handleDoubleClick with the pen tool
PenDoubleClick ==
    /\ currentTool = "pen"
    /\ ToolEvent("penDoubleClick")
    /\ ABecomes(penDoubleClick(ACur))

Undo == ToolEvent("undo") /\ ABecomes(undo(ACur))

Redo == ToolEvent("redo") /\ ABecomes(redo(ACur))

NextTools ==
    \/ \E toolName \in ToolRequests : SetTool(toolName)
    \/ \E pos \in PenPositions : PenMouseDown(pos)
    \/ PenDoubleClick
    \/ Undo
    \/ Redo

SpecTools == InitTools /\ [][NextTools]_vars

----------------------------------------------------------------------------
\* HistoryManager on its own: an undo stack that holds 1, 2, maxHistory - 1 or
\* maxHistory states, the document being the newest of them, then pushState,
\* undo and redo

\* the k-th state given to pushState: one frame with one triangle, moved by k
SavedNo(k) ==
    [frames |-> Stringify(<< [id |-> 1, layers |-> << MkLayer(<<1, 1>>, "Layer 1",
                    TRUE, FALSE,
                    << MkShape(<<1, 1, 1>>, <<1, 1, 1>>, "polygon", TRUE,
                         << <<k, 0>>, <<k + 6, 0>>, <<k, 6>> >>) >>) >>] >>),
     currentFrameIndex |-> 0]

StoredCounts == {1, 2, maxHistory - 1, maxHistory}
PushInputs == {201, 202}

InitHistory ==
    /\ StartsAs(Loaded(3))
    /\ box = NoBox
    /\ currentFrameIndex = 0
    /\ activeLayerId = <<1, 1>>
    /\ uid = 2
    /\ currentTool = "select"
    /\ toolState = [currentPath |-> NoPath, pendingShape |-> FALSE]
    /\ \E n \in StoredCounts :
          /\ undoStack = [k \in 1 .. n |-> SavedNo(k)]
          /\ frames = Parse(SavedNo(n).frames, 2)
    /\ redoStack = <<>>
    /\ InitCaptured
    /\ InitParts

PushState(k) == ToolEvent("pushState") /\ ABecomes(pushState(ACur, SavedNo(k)))

NextHistory ==
    \/ \E k \in PushInputs : PushState(k)
    \/ Undo
    \/ Redo

SpecHistory == InitHistory /\ [][NextHistory]_vars

----------------------------------------------------------------------------
\* EventEmitter, for one event name.  A function object is a record: a callback
\* the components pass in is Plain(c); the wrapper a call of once creates is a
\* new function each time, told apart by n.  emitter.events is _events[event]:
\* unset, or the listener array.  forEach reads the array's length once and the
\* code only ever appends to an array in place (off installs a new one), so the
\* emit that is delivering visits the contents the array had when it started:
\* emitter.delivering.array, k the next position.
\* emitter.removed (history): the functions given to off since they were last
\* registered.  emitter.late (history): the functions the last step called
\* while they were in removed.

Callbacks == {1, 2}

Plain(c) == [once |-> FALSE, cb |-> c, n |-> 0]

\* EventEmitter.on(event, callback); the function it returns calls off
on(M, callback) ==
    [M EXCEPT !.events = [set |-> TRUE, cbs |-> Append(@.cbs, callback)],
              !.removed = @ \ {callback}]

\* EventEmitter.off(event, callback)
off(M, callback) ==
    LET M1 == [M EXCEPT !.removed = @ \cup {callback}]
    IN  IF ~M.events.set THEN M1
        ELSE [M1 EXCEPT !.events.cbs =
                 SelectSeq(@, LAMBDA cb : cb # callback)]

\* EventEmitter.once(event, callback)
once(M, callback) ==
    LET wrapper == [once |-> TRUE, cb |-> callback.cb, n |-> M.serial + 1]
    IN  on([M EXCEPT !.serial = @ + 1, !.removed = @ \ {callback}], wrapper)

\* what a callback does when it is called: nothing to the emitter, or a call
\* of off or on for this event
Bodies ==
    {[do |-> "nothing", cb |-> 0]}
        \cup {[do |-> d, cb |-> c] : d \in {"off", "on"}, c \in Callbacks}

runBody(M, body) ==
    IF body.do = "off" THEN off(M, Plain(body.cb))
    ELSE IF body.do = "on" THEN on(M, Plain(body.cb))
    ELSE M

\* callback(...args) of emit's forEach, for the listener l: a plain callback
\* runs its body; the wrapper of once takes itself off, then calls its callback
callListener(M, l, body) ==
    LET late1 == {l} \cap M.removed
        M1 == IF l.once THEN off(M, l) ELSE M
        late2 == IF l.once THEN {Plain(l.cb)} \cap M1.removed ELSE {}
    IN  [runBody(M1, body) EXCEPT !.late = late1 \cup late2]

\* EventEmitter.emit(event, ...args), up to the first call of a listener
emit(M) ==
    IF ~M.events.set THEN M
    ELSE [M EXCEPT !.delivering =
             [active |-> Len(M.events.cbs) > 0, array |-> M.events.cbs, k |-> 1]]

\* one more listener of the emit that is delivering
deliverNext(M, body) ==
    LET d == M.delivering
        M1 == callListener(M, d.array[d.k], body)
    IN  [M1 EXCEPT !.delivering = IF d.k < Len(d.array)
                                  THEN [d EXCEPT !.k = @ + 1]
                                  ELSE NoEmitter.delivering]

MaxEmitterSteps == 5     \* calls and deliveries per explored session

\* no listener array yet, or both callbacks registered in either order
InitEmitter ==
    /\ StartsAs(Loaded(3))
    /\ InitExt
    /\ InitCaptured
    /\ selectedVertices = <<>>
    /\ \E cbs \in {<<>>, <<Plain(1), Plain(2)>>, <<Plain(2), Plain(1)>>} :
          emitter = IF cbs = <<>> THEN NoEmitter
                    ELSE [NoEmitter EXCEPT !.events = [set |-> TRUE, cbs |-> cbs]]

EmitterEvent(name, M) ==
    /\ steps < MaxEmitterSteps /\ steps' = steps + 1 /\ lastOp' = name
    /\ emitter' = M
    /\ UNCHANGED editorVars
    /\ UNCHANGED <<frames, currentFrameIndex, activeLayerId, uid, toolVars>>
    /\ UNCHANGED selectedVertices

\* the calls a component makes while no emit is delivering
Quiet == [emitter EXCEPT !.late = {}]

On(c) == ~emitter.delivering.active /\ EmitterEvent("on", on(Quiet, Plain(c)))

Off(c) == ~emitter.delivering.active /\ EmitterEvent("off", off(Quiet, Plain(c)))

Once(c) == ~emitter.delivering.active /\ EmitterEvent("once", once(Quiet, Plain(c)))

Emit == ~emitter.delivering.active /\ EmitterEvent("emit", emit(Quiet))

Deliver(body) ==
    /\ emitter.delivering.active
    /\ EmitterEvent("deliver", deliverNext(emitter, body))

NextEmitter ==
    \/ \E c \in Callbacks : On(c)
    \/ \E c \in Callbacks : Off(c)
    \/ \E c \in Callbacks : Once(c)
    \/ Emit
    \/ \E body \in Bodies : Deliver(body)

SpecEmitter == InitEmitter /\ [][NextEmitter]_vars

----------------------------------------------------------------------------
\* Vertex selection (ShapeFactory).  A key "shapeId:index" is <<shapeId, index>>.
\* V is the frame state with selectedVertices.

VCur ==
    [frames |-> frames, currentFrameIndex |-> currentFrameIndex,
     activeLayerId |-> activeLayerId, uid |-> uid,
     selectedVertices |-> selectedVertices]

VBecomes(V) ==
    /\ FBecomes(V)
    /\ selectedVertices' = V.selectedVertices

\* ShapeFactory.selectVertex(shapeId, vertexIndex, additive)
selectVertex(V, shapeId, vertexIndex, additive) ==
    LET key == <<shapeId, vertexIndex>>
    IN  IF ~additive THEN [V EXCEPT !.selectedVertices = <<key>>]
        ELSE IF \A k \in 1 .. Len(V.selectedVertices) : V.selectedVertices[k] # key
             THEN [V EXCEPT !.selectedVertices = Append(@, key)]
             ELSE V

\* the loop of deleteSelectedVertices from the k-th key on: the first shape
\* with the key's id loses the vertex now at the key's index, if it has more
\* than 3 vertices (splice at or past the end removes nothing)
RECURSIVE spliceSelected(_, _, _)
spliceSelected(shapes, keys, k) ==
    IF k > Len(keys) THEN shapes
    ELSE LET shapeId == keys[k][1]
             index == keys[k][2]
             hits == {j \in 1 .. Len(shapes) : shapes[j].id = shapeId}
         IN  IF hits = {} THEN spliceSelected(shapes, keys, k + 1)
             ELSE LET j == CHOOSE h \in hits : \A m \in hits : h <= m
                      vs == shapes[j].vertices
                  IN  IF Len(vs) > 3
                      THEN spliceSelected(
                               [shapes EXCEPT ![j].vertices =
                                   SubSeq(vs, 1, index) \o SubSeq(vs, index + 2, Len(vs))],
                               keys, k + 1)
                      ELSE spliceSelected(shapes, keys, k + 1)

\* ShapeFactory.deleteSelectedVertices() on getShapes(), the active layer's shapes
deleteSelectedVertices(V) ==
    IF Len(V.frames) = 0 \/ Len(V.frames[V.currentFrameIndex + 1].layers) = 0
    THEN [V EXCEPT !.selectedVertices = <<>>]
    ELSE [V EXCEPT !.frames[V.currentFrameIndex + 1].layers[activeLayerIndex(V)].shapes =
                       spliceSelected(@, V.selectedVertices, 1),
                   !.selectedVertices = <<>>]

Penta == << <<0, 0>>, <<8, 0>>, <<12, 6>>, <<4, 12>>, <<-4, 6>> >>

\* one frame, one layer: a pentagon, a quadrilateral and a triangle
Drawing ==
    << [id |-> 1, layers |-> << MkLayer(<<1, 1>>, "Layer 1", TRUE, FALSE,
          << MkShape(<<1, 1, 1>>, <<1, 1, 1>>, "polygon", TRUE, Penta),
             MkShape(<<1, 1, 2>>, <<1, 1, 2>>, "polygon", TRUE, Quad),
             MkShape(<<1, 1, 3>>, <<1, 1, 3>>, "polygon", TRUE, Tri) >>) >>] >>

\* the vertices a click can hit, and a shape that is not there
VertexKeys ==
    {<<<<1, 1, 1>>, i>> : i \in 0 .. 4} \cup {<<<<1, 1, 2>>, i>> : i \in 0 .. 3}
        \cup {<<<<1, 1, 3>>, 0>>, <<<<9, 9, 9>>, 0>>}

InitVertices ==
    /\ StartsAs(Loaded(3))
    /\ box = NoBox
    /\ frames = Drawing
    /\ currentFrameIndex = 0
    /\ activeLayerId = <<1, 1>>
    /\ uid = 1
    /\ InitTool
    /\ InitCaptured
    /\ emitter = NoEmitter
    /\ selectedVertices = <<>>

VertexEvent(name) ==
    /\ steps < MaxFrameSteps /\ steps' = steps + 1 /\ lastOp' = name
    /\ UNCHANGED editorVars
    /\ UNCHANGED toolVars
    /\ UNCHANGED emitter

SelectVertex(shapeId, vertexIndex, additive) ==
    /\ VertexEvent("selectVertex")
    /\ VBecomes(selectVertex(VCur, shapeId, vertexIndex, additive))

DeleteSelectedVertices ==
    /\ VertexEvent("deleteSelectedVertices")
    /\ VBecomes(deleteSelectedVertices(VCur))

NextVertices ==
    \/ \E key \in VertexKeys, additive \in BOOLEAN :
          SelectVertex(key[1], key[2], additive)
    \/ DeleteSelectedVertices

SpecVertices == InitVertices /\ [][NextVertices]_vars

----------------------------------------------------------------------------
\* Properties

NodeIds(pts) == {pts[k].id : k \in 1 .. Len(pts)}

\* every linked pair (a, b): b.x = -a.x and b.y = a.y
PairsSymmetric(pts) ==
    \A i, j \in 1 .. Len(pts) :
        pts[i].mirrorId = pts[j].id => pts[j].x = -pts[i].x /\ pts[j].y = pts[i].y

\* the snapshot fields, read off the variables
LiveFields ==
    [points |-> points, selectedIds |-> selectedIds, pan |-> pan, zoom |-> zoom,
     mirrorEnabled |-> mirrorEnabled, nodeIdCounter |-> nodeIdCounter,
     weightEnabled |-> weightEnabled, perHopFalloff |-> perHopFalloff,
     maxHops |-> maxHops]

LiveFieldsNext ==
    [points |-> points', selectedIds |-> selectedIds', pan |-> pan', zoom |-> zoom',
     mirrorEnabled |-> mirrorEnabled', nodeIdCounter |-> nodeIdCounter',
     weightEnabled |-> weightEnabled', perHopFalloff |-> perHopFalloff',
     maxHops |-> maxHops']

FieldsOf(E) ==
    [points |-> E.points, selectedIds |-> E.selectedIds, pan |-> E.pan,
     zoom |-> E.zoom, mirrorEnabled |-> E.mirrorEnabled,
     nodeIdCounter |-> E.nodeIdCounter, weightEnabled |-> E.weightEnabled,
     perHopFalloff |-> E.perHopFalloff, maxHops |-> E.maxHops]

\* C1: with mirroring enabled and the pairs symmetric at the start, after every
\* single moveSelectedBy step (any selection, any delta, weighting on or off)
\* every linked pair (a, b) has b.x = -a.x and b.y = a.y.
C1_MoveKeepsPairsSymmetric ==
    (lastOp = "move" /\ mirrorEnabled) => PairsSymmetric(points)

\* a second displacement step with weighting on, a pair selected on its
\* partner side only, and a pair moved by falloff alone
C1_Witness ==
    /\ lastOp = "move" /\ steps = 2 /\ mirrorEnabled /\ weightEnabled
    /\ perHopFalloff = 1
    /\ \E i, j \in 1 .. Len(points) :
          /\ points[i].mirrorId = points[j].id /\ points[i].primary
          /\ points[j].id \in selectedIds /\ points[i].id \notin selectedIds
          /\ points[i].x # RegularXY(Len(points))[i][1]
    /\ \E i, j \in 1 .. Len(points) :
          /\ points[i].mirrorId = points[j].id /\ points[i].primary
          /\ points[j].id \notin selectedIds /\ points[i].id \notin selectedIds
          /\ points[i].x # RegularXY(Len(points))[i][1]

\* C2: undo() immediately followed by redo() restores every snapshot field and
\* both stacks, in every state where the undo has an entry to restore (and in
\* those where neither stack has one).
C2_UndoRedoRestores ==
    (Len(past) > 0 \/ Len(future) = 0) =>
        LET R == historyRedo(historyUndo(Cur))
        IN  /\ FieldsOf(R) = LiveFields
            /\ R.past = past
            /\ R.future = future

\* a state whose undo changes the nodes, the selection and the view
C2_Witness ==
    /\ Len(past) > 0
    /\ LET U == historyUndo(Cur)
       IN  /\ U.points # points
           /\ U.selectedIds # selectedIds
           /\ U.zoom # zoom
           /\ U.nodeIdCounter # nodeIdCounter

\* C3: undo() with a non-empty past restores exactly the snapshot of the top past
\* entry, pops it, and pushes one snapshot of the pre-undo state onto future;
\* redo() does the same with future and past exchanged.
C3_UndoRedoStep ==
    [][/\ (lastOp' = "undo" /\ Len(past) > 0) =>
            LET entry == past[Len(past)]
            IN  /\ LiveFieldsNext = entry.state
                /\ past' = SubSeq(past, 1, Len(past) - 1)
                /\ future' = Append(future, [label |-> entry.label,
                                             state |-> LiveFields])
       /\ (lastOp' = "redo" /\ Len(future) > 0) =>
            LET entry == future[Len(future)]
            IN  /\ LiveFieldsNext = entry.state
                /\ future' = SubSeq(future, 1, Len(future) - 1)
                /\ past' = Append(past, [label |-> entry.label,
                                         state |-> LiveFields])
      ]_vars

\* a redo that brought back an inserted node
C3_Witness ==
    /\ lastOp = "redo"
    /\ Len(past) > 0
    /\ past[Len(past)].state.points # points
    /\ past[Len(past)].label = "Insert Vertex"

\* C4: the mirror relation is well formed in every reachable state: a node's
\* mirrorId names a live node whose mirrorId points back, and exactly one of the
\* two is primary.
C4_MirrorWellFormed ==
    \A i \in 1 .. Len(points) :
        points[i].mirrorId # NullId =>
            \E j \in 1 .. Len(points) :
                /\ j # i
                /\ points[j].id = points[i].mirrorId
                /\ points[j].mirrorId = points[i].id
                /\ points[i].primary # points[j].primary

\* a linked pair left in the polygon by a delete that was carried out
C4_Witness ==
    /\ mirrorEnabled
    /\ \E i \in 1 .. Len(points) : points[i].mirrorId # NullId
    /\ lastOp = "delete"
    /\ past[Len(past)].label = "Delete Vertices"

\* the ids a delete is to remove: the selected nodes and the mirror partner of each
SelectedWithPartners ==
    {n.id : n \in {points[k] : k \in 1 .. Len(points)}} \cap
        (selectedIds \cup
         {points[k].mirrorId : k \in {m \in 1 .. Len(points) :
                                        points[m].id \in selectedIds}})

\* C5: a delete that is carried out removes exactly the selected nodes and the
\* mirror partner of each selected node, whichever member of a pair is selected.
C5_DeleteRemovesPairs ==
    [][(lastOp' = "delete" /\ Len(points') < Len(points)) =>
            NodeIds(points) \ NodeIds(points') = SelectedWithPartners
      ]_vars

\* the cyclic neighbours of position k in a sequence of n elements
Before(k, n) == IF k = 1 THEN n ELSE k - 1
After(k, n) == IF k = n THEN 1 ELSE k + 1

\* the mirror image of node a in pts: its partner, or itself when unpaired
MirrorOf(pts, a) ==
    IF a.mirrorId = NullId THEN a.id ELSE a.mirrorId

\* pts without the node whose id is given
Without(pts, id) == SelectSeq(pts, LAMBDA n : n.id # id)

\* C6: with mirroring enabled, inserting at (x, y) with |x| > EPS adds the new
\* node on the edge and a twin at (-x, y) linked to it, and the twin lies between
\* the mirror partners of the edge's two end points, for every edge.
C6_TwinOnMirroredEdge ==
    [][(lastOp' = "insert" /\ mirrorEnabled /\ Len(points') = Len(points) + 2
        /\ \A k \in 1 .. Len(points) :
               points[k].mirrorId # NullId \/ WithinEps(points[k].x)) =>
          LET newId == nodeIdCounter
              twinId == nodeIdCounter + 1
              onEdge == Without(points', twinId)
              p == CHOOSE k \in 1 .. Len(onEdge) : onEdge[k].id = newId
              a == onEdge[Before(p, Len(onEdge))]
              b == onEdge[After(p, Len(onEdge))]
              mirrored == Without(points', newId)
              q == CHOOSE k \in 1 .. Len(mirrored) : mirrored[k].id = twinId
              ta == mirrored[Before(q, Len(mirrored))]
              tb == mirrored[After(q, Len(mirrored))]
          IN  /\ mirrored[q].x = -onEdge[p].x
              /\ mirrored[q].y = onEdge[p].y
              /\ mirrored[q].mirrorId = newId
              /\ onEdge[p].mirrorId = twinId
              /\ {ta.id, tb.id} = {MirrorOf(points', a), MirrorOf(points', b)}
      ]_vars

\* C7: insertVertexOnEdge leaves every pre-existing node as it was (id,
\* position, mirrorId, primary) and in the same relative order.
C7_InsertKeepsExistingNodes ==
    [][lastOp' = "insert" =>
          SelectSeq(points', LAMBDA n : n.id \in NodeIds(points)) = points
      ]_vars

\* an insertion that also added a twin, into a polygon that had linked pairs
C7_Witness ==
    /\ lastOp = "insert"
    /\ mirrorEnabled
    /\ \E k \in 1 .. Len(points) :
          points[k].id = nodeIdCounter - 1 /\ ~points[k].primary
    /\ Cardinality({k \in 1 .. Len(points) : points[k].mirrorId # NullId}) >= 4

WouldRemove ==
    LET sel == {k \in 1 .. Len(points) : points[k].id \in selectedIds}
    IN  sel \cup {j \in 1 .. Len(points) :
                    \E k \in sel : points[k].primary /\ points[k].mirrorId = points[j].id}

\* C9: a delete that would leave fewer than 3 nodes, counting the partners it
\* would remove, changes nothing: nodes, selection, id counter, stacks.
C9_RefusedDeleteChangesNothing ==
    [][(lastOp' = "delete" /\ selectedIds # {}
        /\ Len(points) - Cardinality(WouldRemove) < 3) =>
          /\ LiveFieldsNext = LiveFields
          /\ idToIndex' = idToIndex
          /\ past' = past /\ future' = future /\ checkpoint' = checkpoint
      ]_vars

\* a refused delete of a primary whose partner was counted
C9_Witness ==
    /\ lastOp = "delete"
    /\ mirrorEnabled
    /\ selectedIds # {}
    /\ Cardinality(WouldRemove) > Cardinality(selectedIds)
    /\ Len(points) - Cardinality(WouldRemove) < 3

\* C10: the polygon has at least 3 nodes in every reachable state.
C10_AtLeastThreeNodes == Len(points) >= MinSides

\* a delete that was carried out and left exactly 3 nodes
C10_Witness ==
    /\ lastOp = "delete"
    /\ Len(points) = 3
    /\ Len(past) > 0
    /\ past[Len(past)].label = "Delete Vertices"

----------------------------------------------------------------------------
\* Weighted displacement

\* the 0-based positions of the selected nodes
SelectedPositions == {k - 1 : k \in {m \in 1 .. Len(points) : points[m].id \in selectedIds}}

\* the least ring distance from 0-based position i to a selected node
MinRing(i) ==
    LET N == Len(points)
        ds == {Min2(Abs(i - t), N - Abs(i - t)) : t \in SelectedPositions}
    IN  CHOOSE k \in ds : \A o \in ds : k <= o

\* node i (1-based) went from points to points' by (num / den) * d
DisplacedBy(i, d, num, den) ==
    /\ points'[i].x * den = points[i].x * den + d[1] * num
    /\ points'[i].y * den = points[i].y * den + d[2] * num

WeightByMinimum(m) ==
    IF m = 0 THEN [num |-> 1, den |-> 1]
    ELSE IF weightEnabled /\ m <= maxHops
    THEN [num |-> Pow(perHopFalloff, m), den |-> Pow(FalloffDen, m)]
    ELSE [num |-> 0, den |-> 1]

\* C12: for any non-empty selection moveSelectedBy displaces a node by the
\* weight of its least ring distance m to a selected node (1 if m = 0,
\* falloff^m if weighting is on and m <= maxHops, else 0), once: every node in
\* the displacement loop, and in the outcome of the step every node that the
\* mirror reconciliation does not place afterwards.
C12_MinimumHopDecides ==
    [][(lastOp' = "move" /\ selectedIds # {}) =>
          /\ \A d \in Deltas : \A i \in 1 .. Len(points) :
                LET w == WeightByMinimum(MinRing(i - 1))
                    q == displaceWeighted(Cur, getSelectedIndices(Cur),
                                          d[1], d[2]).points[i]
                IN  /\ q.x * w.den = points[i].x * w.den + d[1] * w.num
                    /\ q.y * w.den = points[i].y * w.den + d[2] * w.num
          /\ \E d \in Deltas : \A i \in 1 .. Len(points) :
                points[i].mirrorId = NullId =>
                  LET w == WeightByMinimum(MinRing(i - 1))
                  IN  DisplacedBy(i, d, w.num, w.den)
      ]_vars

\* a hexagon, mirroring off, falloff 0.5, vertices 0 and 2 selected: vertex 1 is
\* one hop from both and moved by half the step, not by the whole of it
C12_Witness ==
    /\ lastOp = "move" /\ steps = 1
    /\ ~mirrorEnabled /\ weightEnabled /\ perHopFalloff = 1
    /\ Len(points) = 6 /\ selectedIds = {1, 3}
    /\ points[1].x = RegularXY(6)[1][1] + 64
    /\ points[2].x = RegularXY(6)[2][1] + 32
    /\ points[3].x = RegularXY(6)[3][1] + 64

----------------------------------------------------------------------------
\* The history manager's checkpoint protocol

\* C13: at most one checkpoint is open; begin while one is open, or while
\* recording is suppressed, changes nothing; commit and cancel leave none open.
C13_NoNestedCheckpoint ==
    [][/\ Len(checkpoint) <= 1
       /\ checkpoint # NoCheckpoint =>
             historyBegin(Cur, "Move Vertices") = Cur
       /\ historyBegin([Cur EXCEPT !.suppressHistory = TRUE], "Move Vertices")
             = [Cur EXCEPT !.suppressHistory = TRUE]
       /\ historyCommit(Cur).checkpoint = NoCheckpoint
       /\ historyCancel(Cur).checkpoint = NoCheckpoint
       /\ (lastOp' = "mousedownVertex" /\ checkpoint # NoCheckpoint) =>
             checkpoint' = checkpoint
       /\ (lastOp' \in {"mouseup", "mouseleave"} /\ moveHistoryActive) =>
             checkpoint' = NoCheckpoint
      ]_vars

\* a second mousedown on a handle while the first one's checkpoint was open: the
\* selection changed, the checkpoint still holds the first one's snapshot
C13_Witness ==
    /\ lastOp = "mousedownVertex"
    /\ steps >= 2
    /\ checkpoint # NoCheckpoint
    /\ selectedIds # {}
    /\ checkpoint[1].state.selectedIds # selectedIds
    /\ checkpoint[1].state.selectedIds # {}

\* the handlers that call history.record before they change anything
Recording == {"insert", "setN", "center", "mirror", "weight", "falloff", "hops"}

\* C14: commit() of an open checkpoint and record(label) each append exactly one
\* entry to past and leave future empty; commit() with no checkpoint open and
\* cancel() change neither stack.
C14_NewEntryDiscardsRedo ==
    [][/\ checkpoint # NoCheckpoint =>
             /\ historyCommit(Cur).past = Append(past, checkpoint[1])
             /\ historyCommit(Cur).future = <<>>
       /\ checkpoint = NoCheckpoint => historyCommit(Cur) = Cur
       /\ historyCancel(Cur).past = past /\ historyCancel(Cur).future = future
       /\ historyRecord(Cur, "Insert Vertex").past =
             Append(past, [label |-> "Insert Vertex", state |-> LiveFields])
       /\ historyRecord(Cur, "Insert Vertex").future = <<>>
       /\ lastOp' \in Recording =>
             /\ Len(past') = Len(past) + 1
             /\ SubSeq(past', 1, Len(past)) = past
             /\ past'[Len(past')].state = LiveFields
             /\ future' = <<>>
       /\ lastOp' \in {"mouseup", "mouseleave"} =>
             IF moveHistoryActive /\ moveApplied /\ checkpoint # NoCheckpoint
             THEN past' = Append(past, checkpoint[1]) /\ future' = <<>>
             ELSE past' = past /\ future' = future
      ]_vars

\* an insert recorded after an undo: the entry the undo had put on future is gone
C14_Witness ==
    /\ lastOp = "insert"
    /\ steps = 3
    /\ Len(past) = 1 /\ future = <<>>
    /\ past[1].label = "Insert Vertex"
    /\ Len(issuedIds) > nodeIdCounter - 1

----------------------------------------------------------------------------
\* Drag gestures

\* no gesture is in progress
Idle == ~dragging /\ ~moveHistoryActive

\* a drag of the selection is in progress
Moving == dragging /\ dragMode = "move" /\ moveHistoryActive

\* C15: a drag gesture on a vertex (mousedown on a handle from the idle state,
\* mousemoves, then mouseup or mouseleave) that displaced the selection adds
\* exactly one entry to past, pushed at the end of the gesture and holding the
\* state the gesture started from (with the selection the mousedown made); a
\* gesture without movement adds none.  Step by step: the mousedown opens a
\* checkpoint of the state it starts from and pushes nothing, every mousemove
\* keeps checkpoint and past, and the mouseup or mouseleave pushes that
\* checkpoint if there was movement and nothing otherwise.
C15_OneEntryPerDrag ==
    [][/\ (lastOp' = "mousedownVertex" /\ Idle /\ dragging') =>
             /\ checkpoint' = <<[label |-> "Move Vertices",
                                 state |-> [LiveFields EXCEPT
                                              !.selectedIds = selectedIds']]>>
             /\ past' = past
       /\ (lastOp' = "mousemove" /\ Moving) =>
             /\ checkpoint' = checkpoint
             /\ past' = past
       /\ (lastOp' \in {"mouseup", "mouseleave"} /\ Moving) =>
             /\ checkpoint' = NoCheckpoint
             /\ IF moveApplied
                THEN /\ checkpoint # NoCheckpoint
                     /\ past' = Append(past, checkpoint[1])
                ELSE past' = past
      ]_vars

\* C16: while dragging is set a further mousedown (on a handle, or off every
\* handle with or without shift) leaves the gesture's bookkeeping unchanged:
\* open checkpoint, moveHistoryActive, moveApplied, dragging and drag mode.
C16_MouseDownKeepsGesture ==
    [][(dragging /\ lastOp' \in {"mousedownVertex", "mousedownPan", "insert"}) =>
          /\ checkpoint' = checkpoint
          /\ moveHistoryActive' = moveHistoryActive
          /\ moveApplied' = moveApplied
          /\ dragging' = dragging
          /\ dragMode' = dragMode
      ]_vars

\* C17: after the undo or the redo shortcut was handled no checkpoint is open
\* and the drag state is reset, whether or not there was an entry to restore.
C17_ShortcutCancelsCheckpoint ==
    [][lastOp' \in {"undo", "redo"} =>
          /\ checkpoint' = NoCheckpoint
          /\ ~dragging'
          /\ ~moveHistoryActive'
      ]_vars

----------------------------------------------------------------------------
\* Snapshots and the live state

\* the positions of a stack that both the state before and after a step have
Retained(before, after) == 1 .. Min2(Len(before), Len(after))

EntryKept(old, new) ==
    /\ new.label = old.label
    /\ Deref(heap', new.state) = Deref(heap, old.state)

----------------------------------------------------------------------------
\* Canonical selection and the pairing of nodes on the mirror axis

\* C19: in every reachable state the selection is canonical: no selected id
\* belongs to a non-primary node (so at most one id per mirror pair).
C19_SelectionCanonical ==
    \A i \in Indices(Cur) :
        At(Cur, i).id \in selectedIds => At(Cur, i).primary

\* rebuildMirrorPairs() as the mirrorChk handler and setN call it: mirror mode on
Rebuilt == rebuildMirrorPairs([Cur EXCEPT !.mirrorEnabled = TRUE])

----------------------------------------------------------------------------
\* Box selection

\* the rectangle of the box drag after the step
BoxRect == [x1 |-> box'.start[1], y1 |-> box'.start[2],
            x2 |-> box'.end[1], y2 |-> box'.end[2]]

BoxBase == IF box.additive THEN selectedIds ELSE {}

IdsInBox == {At(Cur, i).id : i \in nodesInRect(Cur, BoxRect)}

\* C21 as stated: a box selection step sets the selection to exactly the ids
\* of the nodes whose canvas position lies inside the rectangle (replace
\* mode), or to the previous selection plus those ids (add mode).
C21_BoxSelectsNodesInside ==
    [][lastOp' = "mousemoveBox" => selectedIds' = BoxBase \cup IdsInBox]_vars

\* the id the selection holds for node i: its primary's, its own if it has none
CanonicalId(i) ==
    LET n == At(Cur, i)
    IN  IF n.primary \/ n.mirrorId = NullId \/ ~(\E j \in Indices(Cur) : At(Cur, j).id = n.mirrorId)
        THEN n.id ELSE n.mirrorId

\* C21 amended: a box selection step sets the selection to exactly the
\* canonical ids of the nodes inside the rectangle: the id of a node that is
\* primary or unpaired, the id of the primary partner for a non-primary node;
\* in add mode the previous selection plus those.  With mirroring off these
\* are the ids of the nodes inside.
C21_BoxSelectsCanonicalIds ==
    [][lastOp' = "mousemoveBox" =>
          /\ selectedIds' = BoxBase \cup {CanonicalId(i) : i \in nodesInRect(Cur, BoxRect)}
          /\ (~mirrorEnabled => selectedIds' = BoxBase \cup IdsInBox)
          /\ points' = points ]_vars

\* the square with mirroring off: a replace box over exactly two adjacent
\* corner handles has selected exactly those two ids
SquareBoxExample ==
    /\ lastOp = "mousemoveBox"
    /\ Len(points) = 4
    /\ ~mirrorEnabled
    /\ ~box.additive
    /\ selectedIds = {1, 2}

\* a mirrored polygon: an additive box over a non-primary node only
C21_Witness ==
    /\ lastOp = "mousemoveBox"
    /\ mirrorEnabled
    /\ \E i \in Indices(Cur) :
          /\ ~At(Cur, i).primary
          /\ nodesInRect(Cur, [x1 |-> box.start[1], y1 |-> box.start[2],
                               x2 |-> box.end[1], y2 |-> box.end[2]]) = {i}
          /\ At(Cur, i).mirrorId \in selectedIds

----------------------------------------------------------------------------
\* Interpolated frames

\* a frame without its ids and object identities
Content(frame) ==
    [l \in 1 .. Len(frame.layers) |->
       LET layer == frame.layers[l]
       IN  [name |-> layer.name, visible |-> layer.visible, locked |-> layer.locked,
            shapes |-> [k \in 1 .. Len(layer.shapes) |->
               [type |-> layer.shapes[k].type, closed |-> layer.shapes[k].closed,
                vertices |-> [i \in 1 .. Len(layer.shapes[k].vertices) |->
                                <<layer.shapes[k].vertices[i].x,
                                  layer.shapes[k].vertices[i].y>>]]]]]

\* the ordered pairs of frames of the document with equally many layers
FramePairs ==
    {ab \in (1 .. Len(frames)) \X (1 .. Len(frames)) :
        /\ ab[1] # ab[2]
        /\ Len(frames[ab[1]].layers) = Len(frames[ab[2]].layers)}

AtStart(A, B) == Content(createInterpolatedFrame(A, B, RatInt(0), uid + 1))
AtEnd(A, B) == Content(createInterpolatedFrame(A, B, RatInt(1), uid + 1))

\* C22 as stated: for frames A and B with the same number of layers, the
\* interpolated frame at t = 0 equals A and at t = 1 equals B except for ids,
\* also when shape counts or vertex counts differ.
C22_InterpolationEndpoints ==
    \A ab \in FramePairs :
        /\ AtStart(frames[ab[1]], frames[ab[2]]) = Content(frames[ab[1]])
        /\ AtEnd(frames[ab[1]], frames[ab[2]]) = Content(frames[ab[2]])

\* X has a shape for every shape of Y, each with at least as many vertices
Covers(X, Y) ==
    \A l \in 1 .. Len(X.layers) :
        /\ Len(Y.layers[l].shapes) <= Len(X.layers[l].shapes)
        /\ \A k \in 1 .. Len(Y.layers[l].shapes) :
              Len(Y.layers[l].shapes[k].vertices) <= Len(X.layers[l].shapes[k].vertices)

\* B's layers and the shapes in A's slots have A's names, flags, types
SameLabels(A, B) ==
    \A l \in 1 .. Len(A.layers) :
        /\ B.layers[l].name = A.layers[l].name
        /\ B.layers[l].visible = A.layers[l].visible
        /\ B.layers[l].locked = A.layers[l].locked
        /\ \A k \in 1 .. Min2(Len(A.layers[l].shapes), Len(B.layers[l].shapes)) :
              /\ B.layers[l].shapes[k].type = A.layers[l].shapes[k].type
              /\ B.layers[l].shapes[k].closed = A.layers[l].shapes[k].closed

\* C22 amended: the interpolated frame at t = 0 equals A, ids apart, exactly
\* when A has in every layer at least as many shapes as B and in every slot
\* at least as many vertices; at t = 1 it equals B exactly when B has at least
\* as many shapes and vertices as A and A's layer names, flags, shape types
\* and closed flags.  Frames of the same structure satisfy both.
C22_EndpointsWhenCovered ==
    \A ab \in FramePairs :
        LET A == frames[ab[1]]
            B == frames[ab[2]]
        IN  /\ (AtStart(A, B) = Content(A)) <=> Covers(A, B)
            /\ (AtEnd(A, B) = Content(B)) <=> (Covers(B, A) /\ SameLabels(A, B))

\* keyframes of the same structure and different coordinates, one of them
\* produced by an interpolation
C22_Witness ==
    /\ lastOp = "interpolated"
    /\ \E ab \in FramePairs :
          /\ Covers(frames[ab[1]], frames[ab[2]])
          /\ Covers(frames[ab[2]], frames[ab[1]])
          /\ SameLabels(frames[ab[1]], frames[ab[2]])
          /\ Content(frames[ab[1]]) # Content(frames[ab[2]])
          /\ frames[ab[2]].id > 2

\* the frame shown has no next frame, or one with another number of layers
NoMatchingNext ==
    \/ currentFrameIndex + 1 >= Len(frames)
    \/ Len(frames[currentFrameIndex + 1].layers)
         # Len(frames[currentFrameIndex + 2].layers)

\* C23: an interpolation request with no next frame, or between keyframes of
\* different layer counts, returns the failure result and changes nothing:
\* no frame is inserted or modified, the frame shown stays.
C23_MismatchRefused ==
    [][ (lastOp' \in {"interpolated", "interpolationRefused"} /\ NoMatchingNext)
          => /\ lastOp' = "interpolationRefused"
             /\ UNCHANGED <<frames, currentFrameIndex, activeLayerId, uid>> ]_vars

\* a request was refused between keyframes of which the second has fewer layers
C23_Witness ==
    /\ lastOp = "interpolationRefused"
    /\ currentFrameIndex + 1 < Len(frames)
    /\ Len(frames[currentFrameIndex + 1].layers)
         > Len(frames[currentFrameIndex + 2].layers)

----------------------------------------------------------------------------
\* Frames share no structure

\* the layer, shape and vertex objects reached from a frame
ObjectsOf(frame) ==
    LET layers == frame.layers
    IN  {layers[l].obj : l \in 1 .. Len(layers)}
        \cup UNION {{layers[l].shapes[k].obj : k \in 1 .. Len(layers[l].shapes)} :
                      l \in 1 .. Len(layers)}
        \cup UNION {UNION {{layers[l].shapes[k].vertices[i].obj :
                               i \in 1 .. Len(layers[l].shapes[k].vertices)} :
                             k \in 1 .. Len(layers[l].shapes)} :
                      l \in 1 .. Len(layers)}

NoSharedObjects ==
    \A f, g \in 1 .. Len(frames) :
        f # g => ObjectsOf(frames[f]) \cap ObjectsOf(frames[g]) = {}

\* C24: frames never share structure: after duplicateFrame, interpolation and
\* every other frame operation no layer, shape or vertex object is reached
\* from two frames, and a vertex edit changes no frame but the one shown.
C24_FramesShareNothing ==
    [][ /\ NoSharedObjects'
        /\ lastOp' = "moveVertex" =>
             /\ Len(frames') = Len(frames)
             /\ \A f \in 1 .. Len(frames) :
                   f # currentFrameIndex + 1 => frames'[f] = frames[f] ]_vars

\* a vertex of a duplicated or interpolated frame was moved, and another
\* frame holds a shape of the same id, none of whose vertices moved there
C24_Witness ==
    /\ lastOp = "moveVertex"
    /\ \E f \in 1 .. Len(frames), pos \in NewPositions :
          LET shown == frames[currentFrameIndex + 1]
              HasAt(frame, id) ==
                 \E l \in 1 .. Len(frame.layers) :
                    \E k \in 1 .. Len(frame.layers[l].shapes) :
                       /\ frame.layers[l].shapes[k].id = id
                       /\ \E i \in 1 .. Len(frame.layers[l].shapes[k].vertices) :
                             /\ frame.layers[l].shapes[k].vertices[i].x = pos[1]
                             /\ frame.layers[l].shapes[k].vertices[i].y = pos[2]
              Has(frame, id) ==
                 \E l \in 1 .. Len(frame.layers) :
                    \E k \in 1 .. Len(frame.layers[l].shapes) :
                       frame.layers[l].shapes[k].id = id
          IN  /\ f # currentFrameIndex + 1
              /\ shown.id > 2
              /\ \E id \in ShapeIdsShown :
                    HasAt(shown, id) /\ Has(frames[f], id) /\ ~HasAt(frames[f], id)

----------------------------------------------------------------------------
\* The exported triangle fan

FanSides == {3, 4, 5, 6, 7}

\* the shapes the export of the frame shown writes out, in order
Exported ==
    LET all == shapesOfVisible(frames[currentFrameIndex + 1].layers, 1)
    IN  SelectSeq(all, LAMBDA sh : Len(sh.vertices) >= 3)

RECURSIVE VerticesBefore(_, _)
VerticesBefore(shapes, j) ==
    IF j <= 1 THEN 0 ELSE VerticesBefore(shapes, j - 1) + Len(shapes[j - 1].vertices)

RECURSIVE TrianglesBefore(_, _)
TrianglesBefore(shapes, j) ==
    IF j <= 1 THEN 0
    ELSE TrianglesBefore(shapes, j - 1) + Len(shapes[j - 1].vertices) - 2

\* C25: the fan of a polygon of N >= 3 vertices has the N - 2 triangles
\* [0, i, i + 1], from [0, 1, 2] to [0, N - 2, N - 1]; in the export of a
\* frame the fan of each shape is shifted by the number of vertices exported
\* before it, so each of its triangles indexes three vertices of that shape.
C25_TriangleFan ==
    /\ \A n \in FanSides :
          LET tris == trianglesFan(Loaded(n))
          IN  /\ Len(tris) = n - 2
              /\ \A i \in 1 .. (n - 2) : tris[i] = <<0, i, i + 1>>
              /\ tris[1] = <<0, 1, 2>>
              /\ tris[Len(tris)] = <<0, n - 2, n - 1>>
    /\ LET tris == trianglesFan(Cur)
       IN  Len(tris) = Len(points) - 2 /\ tris[Len(tris)] = <<0, Len(points) - 2, Len(points) - 1>>
    /\ LET data == getCurrentFrameData(FCur)
           shapes == Exported
       IN  /\ Len(data.vertices) = VerticesBefore(shapes, Len(shapes) + 1)
           /\ Len(data.triangles) = TrianglesBefore(shapes, Len(shapes) + 1)
           /\ \A j \in 1 .. Len(shapes) :
                 LET n == Len(shapes[j].vertices)
                     vertexOffset == VerticesBefore(shapes, j)
                 IN  \A i \in 1 .. (n - 2) :
                        LET tri == data.triangles[TrianglesBefore(shapes, j) + i]
                        IN  /\ tri = <<vertexOffset, vertexOffset + i, vertexOffset + i + 1>>
                            /\ \A c \in 1 .. 3 :
                                  /\ tri[c] >= vertexOffset /\ tri[c] < vertexOffset + n
                                  /\ data.vertices[tri[c] + 1] =
                                       <<roundTo3(shapes[j].vertices[tri[c] - vertexOffset + 1].x),
                                         roundTo3(shapes[j].vertices[tri[c] - vertexOffset + 1].y)>>

\* the frame shown exports two shapes after skipping a two-point stroke, and
\* holds coordinates that are not whole
C25_Witness ==
    /\ Len(Exported) >= 2
    /\ \E k \in 1 .. Len(frames[currentFrameIndex + 1].layers[1].shapes) :
          Len(frames[currentFrameIndex + 1].layers[1].shapes[k].vertices) < 3
    /\ \E j \in 1 .. Len(Exported) : Exported[j].vertices[1].x[2] > 1

----------------------------------------------------------------------------
\* The view transforms

\* world points, in eighths: the origin, a handle, a point off the grid
WorldSamples ==
    {GridPoint(0, 0), GridPoint(64, -32),
     [x |-> [num |-> 1975, den |-> 2], y |-> [num |-> -3156, den |-> 5]]}

\* canvas points, in 1/560 px: a corner, the centre, a point off every grid
CanvasSamples ==
    {GridPoint(0, 0), GridPoint(CanvasHalf, CanvasHalf),
     [x |-> [num |-> 100, den |-> 3], y |-> [num |-> 12345, den |-> 7]]}

SamePoint(a, b) == FracEq(a.x, b.x) /\ FracEq(a.y, b.y)

\* C26: for every pan and zoom the editor reaches (zoom stays within
\* [0.2, 5]) the view transforms invert each other:
\* canvasToWorld(worldToCanvas(p)) = p and worldToCanvas(canvasToWorld(q)) = q.
C26_ViewTransformsInverse ==
    /\ zoom >= ZoomMin /\ zoom <= ZoomMax
    /\ \A p \in WorldSamples : SamePoint(canvasToWorld(Cur, worldToCanvas(Cur, p)), p)
    /\ \A q \in CanvasSamples : SamePoint(worldToCanvas(Cur, canvasToWorld(Cur, q)), q)

\* the view was zoomed about a point off the centre: pan and zoom both changed
C26_Witness ==
    /\ lastOp = "wheel"
    /\ pan[1] # 0 /\ pan[2] # 0
    /\ zoom # ZoomDen
    /\ \E p \in WorldSamples : ~SamePoint(worldToCanvas(Cur, p), p)

----------------------------------------------------------------------------
\* Cancelling a pen path

\* C27 (as stated): a tool switch through setTool changes tool-local state
\* only; the undo stack and the redo stack are after it what they were before
\* it, whatever the length of the path in progress
C27_CancelLeavesHistory ==
    [][lastOp' = "setTool" => undoStack' = undoStack /\ redoStack' = redoStack]_vars

----------------------------------------------------------------------------
\* Which member of a pair the reconciliation follows

\* node b of pts lies at the mirror image of node a of pts
ImageOf(pts, b, a) == pts[b].x = -pts[a].x /\ pts[b].y = pts[a].y

\* the linked pairs <<primary, partner>> (1-based positions) of which a member
\* is displaced by a step with the present selection
AffectedPairs ==
    LET moved == movedIndices(Cur, getSelectedIndices(Cur))
    IN  {pr \in (1 .. Len(points)) \X (1 .. Len(points)) :
            /\ points[pr[1]].primary
            /\ points[pr[1]].mirrorId = points[pr[2]].id
            /\ (pr[1] - 1 \in moved \/ pr[2] - 1 \in moved)}

\* C28: with mirroring on, a moveSelectedBy step leaves each affected pair as
\* its directly selected member dictates.  With D the positions after the
\* weighted displacement: only the primary selected, the primary stays at D and
\* the partner becomes its image; only the partner selected, the partner stays at
\* D and the primary becomes its image; neither selected (moved by falloff
\* only), the primary stays at D and the partner becomes its image, whichever
\* of the two the falloff moved.
C28_SelectedMemberDecides ==
    [][(lastOp' = "move" /\ mirrorEnabled /\ selectedIds # {}) =>
          \E d \in Deltas :
            LET D == displaceWeighted(Cur, getSelectedIndices(Cur), d[1], d[2]).points
            IN  \A pr \in AffectedPairs :
                  LET c == pr[1]
                      q == pr[2]
                      primarySelected == points[c].id \in selectedIds
                      partnerSelected == points[q].id \in selectedIds
                  IN  /\ (primarySelected /\ ~partnerSelected) =>
                          /\ points'[c] = D[c]
                          /\ ImageOf(points', q, c)
                      /\ (~primarySelected /\ partnerSelected) =>
                          /\ points'[q] = D[q]
                          /\ ImageOf(points', c, q)
                      /\ (~primarySelected /\ ~partnerSelected) =>
                          /\ points'[c] = D[c]
                          /\ ImageOf(points', q, c)
      ]_vars

\* after a step: a pair of which only the partner is selected, a pair of which
\* only the primary is selected, and a pair that only the falloff reached and
\* that is off its starting position
C28_Witness ==
    /\ lastOp = "move" /\ mirrorEnabled /\ weightEnabled
    /\ \E pr \in AffectedPairs :
          points[pr[1]].id \notin selectedIds /\ points[pr[2]].id \in selectedIds
    /\ \E pr \in AffectedPairs :
          points[pr[1]].id \in selectedIds /\ points[pr[2]].id \notin selectedIds
    /\ \E pr \in AffectedPairs :
          /\ points[pr[1]].id \notin selectedIds /\ points[pr[2]].id \notin selectedIds
          /\ points[pr[1]].x # RegularXY(Len(points))[pr[1]][1]

----------------------------------------------------------------------------
\* The id-to-index map

\* every id createNode has handed out so far
IssuedIds == {issuedIds[k] : k \in 1 .. Len(issuedIds)}

\* C29: between any two handlers the id-to-index map is exact: position i of
\* the polygon is what indexOfNodeId reports for the id of the node there, and
\* an id that is not in the polygon (null, an id handed out earlier, an id not
\* handed out yet) is reported as not found.
C29_IndexExact ==
    /\ \A i \in 1 .. Len(points) : indexOfNodeId(Cur, points[i].id) = i - 1
    /\ \A id \in (IssuedIds \cup (0 .. nodeIdCounter + 1) \cup DOMAIN idToIndex)
                    \ NodeIds(points) :
          indexOfNodeId(Cur, id) = NotFound

\* an undo or redo has just restored a polygon that lacks a node whose id was
\* handed out, and whose positions are not those of the ids in order
C29_Witness ==
    /\ lastOp \in {"undo", "redo"}
    /\ IssuedIds \ NodeIds(points) # {}
    /\ \E i \in 1 .. Len(points) : points[i].id # i

----------------------------------------------------------------------------
\* Symmetry of the linked pairs in every state

\* C30 (as stated): whenever mirroring is enabled every linked pair is exactly
\* symmetric, partner.x = -primary.x and partner.y = primary.y, in every
\* reachable state and not only directly after moveSelectedBy.
C30_PairsAlwaysSymmetric == mirrorEnabled => PairsSymmetric(points)

----------------------------------------------------------------------------
\* The order of the past stack

\* C31 (as stated): the past stack is ordered by capture time: the snapshot of
\* each entry was captured no earlier than the snapshot of the entry beneath
\* it, also when Delete, an insert or a toolbar change is issued while a drag
\* is in progress.
C31_PastInCaptureOrder ==
    \A k \in 1 .. (Len(past) - 1) : capturedAt.past[k] <= capturedAt.past[k + 1]

----------------------------------------------------------------------------
\* Unlinking a pair

\* C33 (as stated): unlinkMirror on either member of a pair clears mirrorId on
\* both members and leaves both with primary = true, so that no node with
\* mirrorId = null is non-primary.
C33_UnlinkFreesBoth ==
    [][lastOp' = "unlink" =>
          /\ \A i, j \in 1 .. Len(points) :
                (points[i].mirrorId = points[j].id
                    /\ (points'[i].mirrorId = NullId \/ points'[j].mirrorId = NullId)) =>
                  /\ points'[i].mirrorId = NullId /\ points'[j].mirrorId = NullId
                  /\ points'[i].primary /\ points'[j].primary
          /\ \A i \in 1 .. Len(points') :
                points'[i].mirrorId = NullId => points'[i].primary
      ]_vars

----------------------------------------------------------------------------
\* The selection holds live ids

\* C32: in every reachable state each selected id is the id of a node of the
\* polygon, so that getSelectedIndices skips nothing: it returns one index for
\* every selected id.
C32_SelectionIsLive ==
    /\ selectedIds \subseteq NodeIds(points)
    /\ Cardinality(getSelectedIndices(Cur)) = Cardinality(selectedIds)

\* an undo has just brought back a selection, after the selected node of the
\* undone state had been removed or replaced
C32_Witness ==
    /\ lastOp = "undo"
    /\ selectedIds # {}
    /\ Len(future) > 0
    /\ selectedIds \cap {n.id : n \in {future[Len(future)].state.points[k] :
                            k \in 1 .. Len(future[Len(future)].state.points)}}
         # selectedIds

----------------------------------------------------------------------------
\* What a successful interpolation inserts

\* C34: a successful interpolateToNextFrame(numFrames, easing) inserts exactly
\* numFrames frames between the frame shown and the former next frame, the
\* i-th of them interpolated at the eased progress of t_i = i / (numFrames + 1),
\* and leaves currentFrameIndex and every frame that was there unchanged.
C34_InterpolationInserts ==
    [][lastOp' = "interpolated" =>
          \E n \in FrameCounts, e \in Easings :
             LET c == currentFrameIndex + 1
             IN  /\ Len(frames') = Len(frames) + n
                 /\ currentFrameIndex' = currentFrameIndex
                 /\ \A k \in 1 .. c : frames'[k] = frames[k]
                 /\ \A k \in (c + 1) .. Len(frames) : frames'[k + n] = frames[k]
                 /\ \A i \in 1 .. n :
                       Content(frames'[c + i]) =
                         Content(createInterpolatedFrame(frames[c], frames[c + 1],
                                     easingFn(e, Rat(i, n + 1)), 0))
      ]_vars

\* two in-between frames of different content stand between the frame shown
\* and the former next frame
C34_Witness ==
    /\ lastOp = "interpolated"
    /\ currentFrameIndex + 4 <= Len(frames)
    /\ frames[currentFrameIndex + 2].id > 2
    /\ frames[currentFrameIndex + 3].id > 2
    /\ Content(frames[currentFrameIndex + 2]) # Content(frames[currentFrameIndex + 3])
    /\ Content(frames[currentFrameIndex + 1]) # Content(frames[currentFrameIndex + 4])

----------------------------------------------------------------------------
\* The frame shown

\* C35: once a frame exists the list of frames never becomes empty and
\* 0 <= currentFrameIndex < frames.length, after any sequence of addFrame,
\* duplicateFrame, deleteFrame, goToFrame with any index, nextFrame,
\* previousFrame and interpolateToNextFrame.
C35_FrameIndexInRange ==
    /\ Len(frames) >= 1
    /\ 0 <= currentFrameIndex
    /\ currentFrameIndex < Len(frames)

\* frames 3 and 4 were appended to the two keyframes and frame 4, the last of
\* the list and the one shown, has been deleted: the index went from 3 to 2
C35_Witness ==
    /\ lastOp = "deleteFrame"
    /\ uid = 4
    /\ Len(frames) = 3
    /\ frames[1].id <= 2 /\ frames[2].id <= 2 /\ frames[3].id = 3
    /\ currentFrameIndex = 2

----------------------------------------------------------------------------
\* The active layer

\* the ids of the layers of the frame shown
LayerIdsOfCurrent ==
    {frames[currentFrameIndex + 1].layers[l].id :
        l \in 1 .. Len(frames[currentFrameIndex + 1].layers)}

\* C36: after any sequence of addFrame, duplicateFrame, deleteFrame, goToFrame,
\* addLayer, deleteActiveLayer, mergeLayers and moveLayer, activeLayerId is the
\* id of a layer of the frame shown.
C36_ActiveLayerExists == activeLayerId \in LayerIdsOfCurrent

\* the copy of a frame of two layers, whose first layer was active and has just
\* been deleted: the layer that followed it is active
C36_Witness ==
    /\ lastOp = "deleteActiveLayer"
    /\ frames[currentFrameIndex + 1].id = 3
    /\ Len(frames[currentFrameIndex + 1].layers) = 1
    /\ frames[currentFrameIndex + 1].layers[1].id = <<3, 2>>
    /\ activeLayerId = <<3, 2>>

----------------------------------------------------------------------------
\* The HistoryManager class

\* C37: the undo stack never holds more than maxHistory states, and a pushState
\* leaves on it the newest maxHistory of the states it held and the state
\* pushed, in their order: beyond the limit the oldest one is evicted.
C37_UndoStackBounded ==
    [][/\ Len(undoStack') <= maxHistory
       /\ lastOp' = "pushState" =>
             \E k \in PushInputs :
                LET all == Append(undoStack, SavedNo(k))
                    kept == Min2(Len(all), maxHistory)
                IN  undoStack' = SubSeq(all, Len(all) - kept + 1, Len(all))
      ]_vars

\* a pushState on a full stack: the oldest state is gone, the pushed one on top
C37_Witness ==
    /\ lastOp = "pushState"
    /\ Len(undoStack) = maxHistory
    /\ undoStack[1] = SavedNo(2)
    /\ undoStack[maxHistory] \in {SavedNo(k) : k \in PushInputs}

\* the document is the stored state st
Shows(A, st) ==
    /\ Stringify(A.frames) = st.frames
    /\ A.currentFrameIndex = st.currentFrameIndex

\* C38: when canUndo() holds, undo() restores the state pushed just before
\* the latest one and a redo() right after it restores the latest one and
\* leaves both stacks as they were before the undo; with at most one stored
\* state undo() restores nothing and changes neither stack.
C38_UndoThenRedo ==
    LET A == ACur
        U == undo(A)
        R == redo(U)
    IN  IF canUndo(A)
        THEN /\ Shows(U, undoStack[Len(undoStack) - 1])
             /\ Shows(R, undoStack[Len(undoStack)])
             /\ R.undoStack = undoStack
             /\ R.redoStack = redoStack
        ELSE U = A

\* a redo has just taken back one of two undos: both stacks hold states, and
\* the document is the newest state of the undo stack
C38_Witness ==
    /\ lastOp = "redo"
    /\ Len(undoStack) > 1
    /\ Len(redoStack) > 0
    /\ Shows(ACur, undoStack[Len(undoStack)])
    /\ ~Shows(ACur, redoStack[Len(redoStack)])

----------------------------------------------------------------------------
\* EventEmitter

\* C39: once off(event, cb) has returned, cb is not called for that event
\* again (until it is registered again), also when another listener takes it
\* off while an emit of the event is delivering.
C39_NoCallAfterOff == emitter.late = {}

----------------------------------------------------------------------------
\* ShapeFactory: deleting selected vertices

\* the shapes of the layer shown
ShownShapes(fs, idx, layerId) ==
    fs[idx + 1].layers[activeLayerIndex([frames |-> fs, currentFrameIndex |-> idx,
                                         activeLayerId |-> layerId])].shapes

\* C40: deleteSelectedVertices removes only selected vertices: a vertex that
\* is gone from a shape had its key (shape id, index before the call) in
\* selectedVertices, for any number of selected vertices of the shape; and no
\* shape is taken below 3 vertices.
C40_OnlySelectedRemoved ==
    [][lastOp' = "deleteSelectedVertices" =>
          LET before == ShownShapes(frames, currentFrameIndex, activeLayerId)
              after == ShownShapes(frames', currentFrameIndex', activeLayerId')
              keys == {selectedVertices[k] : k \in 1 .. Len(selectedVertices)}
          IN  /\ Len(after) = Len(before)
              /\ \A j \in 1 .. Len(before) :
                    LET left == {after[j].vertices[i].obj :
                                    i \in 1 .. Len(after[j].vertices)}
                    IN  /\ \A i \in 1 .. Len(before[j].vertices) :
                              before[j].vertices[i].obj \notin left
                                  => <<before[j].id, i - 1>> \in keys
                        /\ Len(after[j].vertices) >= Min2(Len(before[j].vertices), 3)
      ]_vars

====
